---- MODULE Spec2Model ----
(***************************************************************************)
(* LiveNest LiveView: the server-side HTML differ (ComputeDiff), the       *)
(* connection handler (Handler.HandleWebSocket) with its sockets, flashes  *)
(* and event routing, and the browser client (liveview.js) that applies    *)
(* the server's updates to the live DOM.                                   *)
(*                                                                         *)
(* The specifications of this module share its variables:                  *)
(*   Spec          the connection handler serving one connection           *)
(*   SpecPair      the connection handler serving two connections          *)
(*   SpecTag       one connection and the discovery requests of            *)
(*                 HandleComponentTag                                      *)
(*   SpecRegistry  two workers on the Handler's registries and its mutex   *)
(*   SpecSession   one Socket and one Session used by two workers          *)
(*   SpecDiff      ComputeDiff on a pair of renders and applyDiff on the   *)
(*                 DOM built from the first one                            *)
(*   SpecClient    the client's focus tracking and its merge of server     *)
(*                 updates (patch / applyDiff / morphdom)                  *)
(*   SpecControl   a page with a form control, its caret and the merge     *)
(*   SpecTimers    the client's debounce and grace timers                  *)
(*   SpecRetry     the client's WebSocket and its reconnect timer, and     *)
(*                 SpecRetryFair, the same with time and the server fair   *)
(*   SpecReconnect the client's WebSocket with the calls of                *)
(*                 HandleWebSocket that serve its connections              *)
(*   SpecFragments ComputeDiff on renders of several top-level nodes       *)
(*   SpecClick     the client's event listeners (attachEventListeners)     *)
(*                 on pages whose trigger attributes change                *)
(*   SpecElement   the WebSocket of an lv-component element and the        *)
(*                 element's removal from the page                         *)
(*   SpecTemplate  two goroutines rendering through one TemplateComponent  *)
(*   SpecChat      the chat example's shared history and its lock          *)
(*   SpecTodo      the todo example's event handlers                       *)
(***************************************************************************)
EXTENDS Integers, Sequences, FiniteSets, TLC

(***************************************************************************)
(* Bounds of the model.                                                    *)
(***************************************************************************)
\* most children of an element in a generated render
MaxChildren == 2

(***************************************************************************)
(* Strings.  A string is a sequence of tokens: a character, a start tag    *)
(* with its attributes, a self-closing start tag, or an end tag.  Markup   *)
(* and plain text are both strings, as in the program: what a string       *)
(* means is decided by the code that consumes it.                          *)
(***************************************************************************)
NoAttr == [x \in {} |-> ""]

Chr(c) == [k |-> "chr", v |-> c, attr |-> NoAttr]

OpenTag(tag, attr) == [k |-> "open", v |-> tag, attr |-> attr]

SelfCloseTag(tag, attr) == [k |-> "selfclose", v |-> tag, attr |-> attr]

CloseTag(tag) == [k |-> "close", v |-> tag, attr |-> NoAttr]

\* html.EscapeString on one character
EscapeChar(c) ==
    CASE c = "<" -> "&lt;"
      [] c = "&" -> "&amp;"
      [] OTHER -> c

\* the tokenizer's decoding of one character reference
UnescapeChar(c) ==
    CASE c = "&lt;" -> "<"
      [] c = "&amp;" -> "&"
      [] OTHER -> c

EscapeString(s) ==
    [i \in 1..Len(s) |-> IF s[i].k = "chr" THEN Chr(EscapeChar(s[i].v)) ELSE s[i]]

(***************************************************************************)
(* html.Node: Type, Data (the tag name of an element), Attr, and the       *)
(* children.  The text of a text node is kept in Text (html.Node keeps it  *)
(* in Data); Data of a text node is "#text".                               *)
(***************************************************************************)
TextNode == "TextNode"

ElementNode == "ElementNode"

Text(s) ==
    [Type |-> TextNode, Data |-> "#text", Text |-> s, Attr |-> NoAttr,
     Children |-> <<>>]

Element(tag, attr, children) ==
    [Type |-> ElementNode, Data |-> tag, Text |-> <<>>, Attr |-> attr,
     Children |-> children]

\* elements that never have children nor an end tag
VoidTags == {"input"}

(***************************************************************************)
(* The HTML parser (golang.org/x/net/html on the server, innerHTML in the  *)
(* browser), on well-formed markup: adjacent characters form one text      *)
(* node, character references are decoded, a void element takes no         *)
(* children, an end tag closes the open element.                           *)
(***************************************************************************)
RECURSIVE ParseNodes(_, _, _)
ParseNodes(s, i, acc) ==
    IF i > Len(s) THEN [nodes |-> acc, next |-> i]
    ELSE
      LET t == s[i] IN
      CASE t.k = "chr" ->
             LET c == Chr(UnescapeChar(t.v)) IN
             IF Len(acc) > 0 /\ acc[Len(acc)].Type = TextNode
             THEN ParseNodes(s, i + 1,
                      [acc EXCEPT ![Len(acc)].Text = Append(@, c)])
             ELSE ParseNodes(s, i + 1, Append(acc, Text(<<c>>)))
        [] t.k = "close" -> [nodes |-> acc, next |-> i + 1]
        [] OTHER ->
             IF t.v \in VoidTags
             THEN ParseNodes(s, i + 1, Append(acc, Element(t.v, t.attr, <<>>)))
             ELSE LET r == ParseNodes(s, i + 1, <<>>) IN
                  ParseNodes(s, r.next, Append(acc, Element(t.v, t.attr, r.nodes)))

ParseMarkup(s) == ParseNodes(s, 1, <<>>).nodes

\* html.ParseFragment(r, nil): one <html> node holding <head> and <body>
ParseFragment(s) ==
    << Element("html", NoAttr,
           << Element("head", NoAttr, <<>>),
              Element("body", NoAttr, ParseMarkup(s)) >>) >>

(***************************************************************************)
(* html.Render                                                             *)
(***************************************************************************)
RECURSIVE renderNode(_)
RECURSIVE RenderAll(_)
RenderAll(nodes) ==
    IF nodes = <<>> THEN <<>>
    ELSE renderNode(Head(nodes)) \o RenderAll(Tail(nodes))

renderNode(node) ==
    IF node.Type = TextNode THEN EscapeString(node.Text)
    ELSE IF node.Data \in VoidTags THEN << SelfCloseTag(node.Data, node.Attr) >>
    ELSE << OpenTag(node.Data, node.Attr) >> \o RenderAll(node.Children)
            \o << CloseTag(node.Data) >>

(***************************************************************************)
(* The diff engine.  A Diff maps child indices (the decimal keys "0",      *)
(* "1", ... of the Go map) to a leaf [s |-> <<string>>] or to              *)
(* [children |-> Diff].                                                    *)
(***************************************************************************)
NilDiff == [x \in {} |-> NoAttr]

\* strconv.Itoa
toString(i) == ToString(i)

\* a text node holding only white space (strings.TrimSpace(Data) == "")
IsBlankText(n) ==
    /\ n.Type = TextNode
    /\ \A i \in 1..Len(n.Text) : n.Text[i] = Chr(" ")

unwrapFragment(node) ==
    IF node.Type = ElementNode /\ node.Data = "html"
    THEN LET found == UNION { { <<b, j>> : j \in { j \in 1..Len(node.Children[b].Children) :
                                      ~IsBlankText(node.Children[b].Children[j]) } } :
                              b \in { b \in 1..Len(node.Children) :
                                      /\ node.Children[b].Type = ElementNode
                                      /\ node.Children[b].Data = "body" } }
         IN IF found = {} THEN node
            ELSE LET first == CHOOSE p \in found :
                                \A q \in found :
                                    \/ p[1] < q[1]
                                    \/ (p[1] = q[1] /\ p[2] <= q[2])
                 IN node.Children[first[1]].Children[first[2]]
    ELSE node

getChildren(node) == node.Children

sameAttributes(oldNode, newNode) ==
    IF Cardinality(DOMAIN oldNode.Attr) # Cardinality(DOMAIN newNode.Attr)
    THEN FALSE
    ELSE \A key \in DOMAIN newNode.Attr :
            key \in DOMAIN oldNode.Attr /\ oldNode.Attr[key] = newNode.Attr[key]

\* a diffNodes that patches the children both nodes have, position by
\* position, when their numbers differ
RECURSIVE diffNodesPerChild(_, _, _)
diffNodesPerChild(oldNode, newNode, index) ==
    IF oldNode.Type = TextNode /\ newNode.Type = TextNode
    THEN IF oldNode.Text # newNode.Text
         THEN toString(index) :> [s |-> << newNode.Text >>]
         ELSE NilDiff
    ELSE IF oldNode.Type # newNode.Type \/ oldNode.Data # newNode.Data
    THEN toString(index) :> [s |-> << renderNode(newNode) >>]
    ELSE IF oldNode.Type = ElementNode /\ ~sameAttributes(oldNode, newNode)
    THEN toString(index) :> [s |-> << renderNode(newNode) >>]
    ELSE
      LET oldChildren == getChildren(oldNode)
          newChildren == getChildren(newNode)
          n == IF Len(oldChildren) <= Len(newChildren) THEN Len(oldChildren)
               ELSE Len(newChildren)
          childDiff(i) == diffNodesPerChild(oldChildren[i + 1], newChildren[i + 1], i)
          changed == { i \in 0..(n - 1) : DOMAIN childDiff(i) # {} }
          childrenDiff == [k \in { toString(i) : i \in changed } |->
                              LET i == CHOOSE i \in changed : toString(i) = k
                              IN childDiff(i)[k]]
      IN IF changed # {}
         THEN toString(index) :> [children |-> childrenDiff]
         ELSE NilDiff

RECURSIVE diffNodes(_, _, _)
diffNodes(oldNode, newNode, index) ==
    IF oldNode.Type = TextNode /\ newNode.Type = TextNode
    THEN IF oldNode.Text # newNode.Text
         THEN toString(index) :> [s |-> << newNode.Text >>]
         ELSE NilDiff
    ELSE IF oldNode.Type # newNode.Type \/ oldNode.Data # newNode.Data
    THEN toString(index) :> [s |-> << renderNode(newNode) >>]
    ELSE IF oldNode.Type = ElementNode /\ ~sameAttributes(oldNode, newNode)
    THEN toString(index) :> [s |-> << renderNode(newNode) >>]
    ELSE
      LET oldChildren == getChildren(oldNode)
          newChildren == getChildren(newNode)
      IN IF Len(oldChildren) # Len(newChildren)
         THEN toString(index) :> [s |-> << renderNode(newNode) >>]
         ELSE
           LET childDiff(i) == diffNodes(oldChildren[i + 1], newChildren[i + 1], i)
               changed == { i \in 0..(Len(oldChildren) - 1) :
                               DOMAIN childDiff(i) # {} }
               childrenDiff == [k \in { toString(i) : i \in changed } |->
                                   LET i == CHOOSE i \in changed : toString(i) = k
                                   IN childDiff(i)[k]]
           IN IF changed # {}
              THEN toString(index) :> [children |-> childrenDiff]
              ELSE NilDiff

\* a ComputeDiff that always answers with the full replacement of lines 25-26
ComputeDiffAlwaysReplacing(oldHTML, newHTML) ==
    toString(0) :> [s |-> << newHTML >>]

ComputeDiff(oldHTML, newHTML) ==
    IF oldHTML = newHTML THEN NilDiff
    ELSE
      LET oldNode == ParseFragment(oldHTML)
          newNode == ParseFragment(newHTML)
      IN IF Len(oldNode) = 0 \/ Len(newNode) = 0
         THEN toString(0) :> [s |-> << newHTML >>]
         ELSE diffNodes(unwrapFragment(oldNode[1]), unwrapFragment(newNode[1]), 0)

(***************************************************************************)
(* The browser's DOM.  A DOM node is an html.Node with an identity (id: 0  *)
(* for a node nothing refers to), and for a form control its value and     *)
(* its dirty flag (set once the value was typed or assigned).              *)
(***************************************************************************)
FormControlTags == {"input", "textarea", "select"}

IsFormControl(node) == node.Type = ElementNode /\ node.Data \in FormControlTags

ValueAttr(attr) == IF "value" \in DOMAIN attr THEN attr["value"] ELSE ""

\* the selection range <<selectionStart, selectionEnd>> of a caret behind the
\* last character of a value
AtEnd(value) == << Len(value), Len(value) >>

\* a range cut to the length of a value, as setSelectionRange does
Clamp(sel, value) ==
    << IF sel[1] > Len(value) THEN Len(value) ELSE sel[1],
       IF sel[2] > Len(value) THEN Len(value) ELSE sel[2] >>

\* the entry of inputStates for an element: none, or the value and the
\* selection range taken by captureInputState
NoCapture == [has |-> FALSE, value |-> "", sel |-> << 0, 0 >>]

RECURSIVE ToDom(_)
ToDom(n) ==
    [Type |-> n.Type, Data |-> n.Data, Text |-> n.Text, Attr |-> n.Attr,
     Children |-> [i \in 1..Len(n.Children) |-> ToDom(n.Children[i])],
     id |-> 0, value |-> ValueAttr(n.Attr), dirty |-> FALSE,
     sel |-> AtEnd(ValueAttr(n.Attr)), captured |-> NoCapture,
     attached |-> {}, listeners |-> <<>>]

RECURSIVE Structure(_)
Structure(d) ==
    [Type |-> d.Type, Data |-> d.Data, Text |-> d.Text, Attr |-> d.Attr,
     Children |-> [i \in 1..Len(d.Children) |-> Structure(d.Children[i])]]

\* temp.innerHTML = content; temp.childNodes
InnerHTML(content) ==
    LET parsed == ParseMarkup(content)
    IN [i \in 1..Len(parsed) |-> ToDom(parsed[i])]

IsElement(n) == n.Type = ElementNode

\* the element children of a node list, in order (firstElementChild is the first)
ElementChildren(nodes) == SelectSeq(nodes, IsElement)

RECURSIVE Contains(_, _)
Contains(node, fid) ==
    /\ fid # 0
    /\ \/ node.id = fid
       \/ \E i \in 1..Len(node.Children) : Contains(node.Children[i], fid)

AnyContains(nodes, fid) == \E i \in 1..Len(nodes) : Contains(nodes[i], fid)

\* node.setAttribute / removeAttribute: the value of a control that was never
\* typed in follows its value attribute
WithAttr(node, attr) ==
    LET value == IF IsFormControl(node) /\ ~node.dirty THEN ValueAttr(attr)
                 ELSE node.value
    IN [node EXCEPT !.Attr = attr, !.value = value, !.sel = Clamp(@, value)]

updateAttributes(fromNode, toNode) ==
    LET kept == { a \in DOMAIN fromNode.Attr : a \in DOMAIN toNode.Attr }
        afterRemove == [a \in kept |-> fromNode.Attr[a]]
        afterSet == [a \in kept \cup DOMAIN toNode.Attr |->
                        IF a \in DOMAIN toNode.Attr THEN toNode.Attr[a]
                        ELSE afterRemove[a]]
    IN WithAttr(fromNode, afterSet)

\* fromNode.value = toNode.value || ''
AssignValue(fromNode, toNode) ==
    [fromNode EXCEPT !.value = toNode.value, !.dirty = TRUE,
                     !.sel = IF toNode.value # fromNode.value
                             THEN AtEnd(toNode.value) ELSE @]

\* restoreInputState(input) for the focused input (lines 73-85)
restoreInputState(input) ==
    IF input.captured.has
    THEN [input EXCEPT !.value = input.captured.value, !.dirty = TRUE,
                       !.sel = Clamp(input.captured.sel, input.captured.value)]
    ELSE input

\* fromNode.setSelectionRange(cursorStart, cursorEnd)
setSelectionRange(node, sel) == [node EXCEPT !.sel = Clamp(sel, node.value)]

Max(a, b) == IF a >= b THEN a ELSE b

RECURSIVE morphdom(_, _, _, _)
RECURSIVE morphChildren(_, _, _, _, _, _)
morphChildren(fromChildren, toChildren, i, focused, pending, acc) ==
    IF i > Max(Len(fromChildren), Len(toChildren))
    THEN [nodes |-> acc, pendingInputs |-> pending]
    ELSE IF i > Len(toChildren)
    THEN morphChildren(fromChildren, toChildren, i + 1, focused, pending, acc)
    ELSE IF i > Len(fromChildren)
    THEN morphChildren(fromChildren, toChildren, i + 1, focused, pending,
                       Append(acc, toChildren[i]))
    ELSE IF fromChildren[i].Type = TextNode /\ toChildren[i].Type = TextNode
    THEN morphChildren(fromChildren, toChildren, i + 1, focused, pending,
                       Append(acc, [fromChildren[i] EXCEPT !.Text = toChildren[i].Text]))
    ELSE IF fromChildren[i].Type = ElementNode /\ toChildren[i].Type = ElementNode
    THEN LET r == morphdom(fromChildren[i], toChildren[i], focused, pending)
         IN morphChildren(fromChildren, toChildren, i + 1, focused,
                          r.pendingInputs, acc \o r.nodes)
    ELSE morphChildren(fromChildren, toChildren, i + 1, focused, pending,
                       Append(acc, toChildren[i]))

\* morphdom(fromNode, toNode): the nodes standing in fromNode's place afterwards
morphdom(fromNode, toNode, focused, pending) ==
    IF fromNode.Data # toNode.Data
    THEN [nodes |-> << toNode >>, pendingInputs |-> pending]
    ELSE
      LET attrsDone == updateAttributes(fromNode, toNode) IN
      IF IsFormControl(fromNode)
      THEN LET isFocused == focused # 0 /\ fromNode.id = focused
               hasPendingChanges == fromNode.id \in pending
           \* the callbacks of setTimeout(..., 0) run once the message is
           \* handled, with the focus where it was
           IN IF isFocused /\ hasPendingChanges
              THEN [nodes |-> << restoreInputState(attrsDone) >>,
                    pendingInputs |-> pending]
              ELSE IF isFocused /\ ~hasPendingChanges
              THEN [nodes |-> << setSelectionRange(AssignValue(attrsDone, toNode),
                                                   fromNode.sel) >>,
                    pendingInputs |-> pending]
              ELSE [nodes |-> << AssignValue(attrsDone, toNode) >>,
                    pendingInputs |-> pending \ {fromNode.id}]
      ELSE IF fromNode.Type = TextNode
      THEN [nodes |-> << [attrsDone EXCEPT !.Text = toNode.Text] >>,
            pendingInputs |-> pending]
      ELSE LET r == morphChildren(fromNode.Children, toNode.Children, 1,
                                  focused, pending, <<>>)
           IN [nodes |-> << [attrsDone EXCEPT !.Children = r.nodes] >>,
               pendingInputs |-> r.pendingInputs]

\* the largest child index a patch can address
MaxIndex == MaxChildren + 1

\* /^\d+$/.test(key)
IsIndexKey(key) == \E i \in 0..MaxIndex : ToString(i) = key

\* parseInt(key)
parseInt(key) == CHOOSE i \in 0..MaxIndex : ToString(i) = key

\* "s": join('') of the array of strings
RECURSIVE Join(_)
Join(ss) == IF ss = <<>> THEN <<>> ELSE Head(ss) \o Join(Tail(ss))

RECURSIVE applyNodeChanges(_, _, _, _, _)
RECURSIVE applyDiffKeys(_, _, _, _, _, _)
\* applyDiffToNode's loop over the entries of diff (integer keys ascending),
\* on the children of the node with identity parentId
applyDiffKeys(parentId, children, diff, keys, focused, pending) ==
    IF keys = {} THEN [nodes |-> children, pendingInputs |-> pending]
    ELSE
      LET key == CHOOSE k \in keys : \A k2 \in keys : parseInt(k) <= parseInt(k2)
          index == parseInt(key)
      IN IF index >= Len(children)
         THEN applyDiffKeys(parentId, children, diff, keys \ {key}, focused, pending)
         ELSE
           LET parentHasFocus ==
                   focused # 0 /\ (parentId = focused \/ AnyContains(children, focused))
               r == applyNodeChanges(parentHasFocus, children[index + 1], diff[key],
                                     focused, pending)
           IN applyDiffKeys(parentId,
                  SubSeq(children, 1, index) \o r.nodes
                      \o SubSeq(children, index + 2, Len(children)),
                  diff, keys \ {key}, focused, r.pendingInputs)

applyDiffToNode(node, diff, focused, pending) ==
    LET r == applyDiffKeys(node.id, node.Children, diff,
                           { k \in DOMAIN diff : IsIndexKey(k) }, focused, pending)
    IN [nodes |-> << [node EXCEPT !.Children = r.nodes] >>,
        pendingInputs |-> r.pendingInputs]

\* applyNodeChanges(parent, node, index, changes): the nodes standing in node's
\* place afterwards; parentHasFocus is
\* parent === focusedInput || parent.contains(focusedInput)
applyNodeChanges(parentHasFocus, node, changes, focused, pending) ==
    IF "s" \in DOMAIN changes
    THEN
      LET content == Join(changes.s)
          fragment == InnerHTML(content)
          elems == ElementChildren(fragment)
      IN IF node.Type = TextNode
         THEN IF parentHasFocus
              THEN [nodes |-> << node >>, pendingInputs |-> pending]
              ELSE [nodes |-> << [node EXCEPT !.Text = content] >>,
                    pendingInputs |-> pending]
         ELSE IF IsFormControl(node) /\ elems # <<>> /\ elems[1].Data = node.Data
         THEN morphdom(node, elems[1], focused, pending)
         ELSE IF Contains(node, focused) /\ elems # <<>>
         THEN morphdom(node, elems[1], focused, pending)
         ELSE IF Len(fragment) >= 1
         THEN [nodes |-> fragment, pendingInputs |-> pending]
         ELSE [nodes |-> << ToDom(Text(content)) >>, pendingInputs |-> pending]
    ELSE IF "children" \in DOMAIN changes
    THEN applyDiffToNode(node, changes.children, focused, pending)
    ELSE [nodes |-> << node >>, pendingInputs |-> pending]

\* applyDiff(diff) on the container's child nodes
applyDiff(nodes, diff, focused, pending) ==
    LET roots == { i \in 1..Len(nodes) : nodes[i].Type = ElementNode }
    IN IF roots = {} THEN [nodes |-> nodes, pendingInputs |-> pending]
       ELSE
         LET at == CHOOSE i \in roots : \A j \in roots : i <= j
             r == IF toString(0) \in DOMAIN diff
                  THEN applyNodeChanges(AnyContains(nodes, focused), nodes[at],
                                        diff[toString(0)], focused, pending)
                  ELSE applyDiffToNode(nodes[at], diff, focused, pending)
         IN [nodes |-> SubSeq(nodes, 1, at - 1) \o r.nodes
                          \o SubSeq(nodes, at + 1, Len(nodes)),
             pendingInputs |-> r.pendingInputs]

\* the container element itself, for a container without element children
ContainerNode(nodes) ==
    [ToDom(Element("div", [id |-> "liveview"], <<>>)) EXCEPT !.Children = nodes]

\* patch(html) on the container's child nodes
patch(nodes, html, focused, pending) ==
    LET elems == ElementChildren(InnerHTML(html))
        roots == { i \in 1..Len(nodes) : nodes[i].Type = ElementNode }
    IN IF elems = <<>> THEN [nodes |-> nodes, pendingInputs |-> pending]
       ELSE IF roots = {}
       THEN LET r == morphdom(ContainerNode(nodes), elems[1], focused, pending)
            IN [nodes |-> r.nodes[1].Children, pendingInputs |-> r.pendingInputs]
       ELSE
         LET at == CHOOSE i \in roots : \A j \in roots : i <= j
             r == morphdom(nodes[at], elems[1], focused, pending)
         IN [nodes |-> SubSeq(nodes, 1, at - 1) \o r.nodes
                          \o SubSeq(nodes, at + 1, Len(nodes)),
             pendingInputs |-> r.pendingInputs]

\* the form controls under a list of nodes, each with the path of child
\* positions that leads to it
RECURSIVE ControlsAt(_, _)
ControlsAt(nodes, path) ==
    UNION { LET here == Append(path, i)
            IN (IF IsFormControl(nodes[i])
                THEN {[path |-> here, id |-> nodes[i].id, value |-> nodes[i].value]}
                ELSE {})
               \cup ControlsAt(nodes[i].Children, here) :
            i \in 1..Len(nodes) }

Controls(nodes) == ControlsAt(nodes, <<>>)

\* Nodes created from markup (innerHTML, cloneNode) are new objects: every
\* control without an identity gets the next unused one, in document order.
RECURSIVE Adopt(_, _)
Adopt(nodes, next) ==
    IF nodes = <<>> THEN [nodes |-> <<>>, next |-> next]
    ELSE
      LET n == Head(nodes)
          fresh == IsFormControl(n) /\ n.id = 0
          kids == Adopt(n.Children, IF fresh THEN next + 1 ELSE next)
          rest == Adopt(Tail(nodes), kids.next)
      IN [nodes |-> << [n EXCEPT !.id = IF fresh THEN next ELSE @,
                                 !.Children = kids.nodes] >> \o rest.nodes,
          next |-> rest.next]

MaxOf(S) == IF S = {} THEN 0 ELSE CHOOSE x \in S : \A y \in S : y <= x

\* the DOM after an update, its new controls given identities
AdoptNew(nodes, focused, pending) ==
    Adopt(nodes, MaxOf({ r.id : r \in Controls(nodes) } \cup {focused} \cup pending) + 1).nodes

\* the DOM with the control id holding value v, typed by the user
RECURSIVE SetValue(_, _, _)
SetValue(nodes, id, v) ==
    [i \in 1..Len(nodes) |->
        IF nodes[i].id = id
        THEN [nodes[i] EXCEPT !.value = v, !.dirty = TRUE, !.sel = AtEnd(v)]
        ELSE [nodes[i] EXCEPT !.Children = SetValue(@, id, v)]]

\* captureInputState(input) on the control id (lines 62-71)
RECURSIVE captureInputState(_, _)
captureInputState(nodes, id) ==
    [i \in 1..Len(nodes) |->
        IF nodes[i].id = id
        THEN [nodes[i] EXCEPT !.captured =
                 [has |-> TRUE, value |-> nodes[i].value, sel |-> nodes[i].sel]]
        ELSE [nodes[i] EXCEPT !.Children = captureInputState(@, id)]]

\* this.inputStates.delete(target)
RECURSIVE deleteInputState(_, _)
deleteInputState(nodes, id) ==
    [i \in 1..Len(nodes) |->
        IF nodes[i].id = id THEN [nodes[i] EXCEPT !.captured = NoCapture]
        ELSE [nodes[i] EXCEPT !.Children = deleteInputState(@, id)]]

\* the user moves the caret or the selection of the control id
RECURSIVE SetSelection(_, _, _)
SetSelection(nodes, id, sel) ==
    [i \in 1..Len(nodes) |->
        IF nodes[i].id = id THEN [nodes[i] EXCEPT !.sel = sel]
        ELSE [nodes[i] EXCEPT !.Children = SetSelection(@, id, sel)]]

\* the triggers attachEventListeners looks for, in its order, and the DOM
\* event each one listens to
Triggers == << "click", "change", "submit" >>

DomEventOf(trigger) == IF trigger = "change" THEN "input" ELSE trigger

\* lines 133-143, 147-182, 186-196 on one element: for each trigger attribute
\* it carries and is not yet marked for, mark it and add a listener that keeps
\* the attribute's value
RECURSIVE attachFrom(_, _)
attachFrom(i, node) ==
    IF i > Len(Triggers) THEN node
    ELSE LET trigger == Triggers[i]
             name == "lv-" \o trigger
         IN IF node.Type = ElementNode /\ name \in DOMAIN node.Attr
                 /\ trigger \notin node.attached
            THEN attachFrom(i + 1,
                     [node EXCEPT !.attached = @ \cup {trigger},
                                  !.listeners = Append(@, [on |-> DomEventOf(trigger),
                                                           event |-> node.Attr[name]])])
            ELSE attachFrom(i + 1, node)

\* attachEventListeners() on the container's child nodes and all below them
RECURSIVE attachEventListeners(_)
attachEventListeners(nodes) ==
    [i \in 1..Len(nodes) |->
        [attachFrom(1, nodes[i]) EXCEPT !.Children = attachEventListeners(@)]]

(***************************************************************************)
(* The renders of the model: the markup of every tree of at most MaxNodes  *)
(* nodes over a small alphabet, written as a template author writes it     *)
(* (a void element as a plain start tag).                                  *)
(***************************************************************************)
MaxNodes == 3

TextChars == {"a", "<"}

ContainerTags == {"div"}

AttrsOf(tag) ==
    IF tag \in FormControlTags THEN {NoAttr, [value |-> "a"]}
    ELSE {NoAttr, [class |-> "x"]}

RECURSIVE TreesOfSize(_)
RECURSIVE ForestsOfSize(_)
ForestsOfSize(n) ==
    IF n = 0 THEN { <<>> }
    ELSE UNION { { <<t>> \o f : t \in TreesOfSize(k), f \in ForestsOfSize(n - k) } :
                 k \in 1..n }

TreesOfSize(n) ==
    IF n = 1
    THEN { Text(<< Chr(c) >>) : c \in TextChars }
           \cup { Element(tag, a, <<>>) : tag \in {"input"}, a \in AttrsOf("input") }
           \cup UNION { { Element(tag, a, <<>>) : a \in AttrsOf(tag) } :
                        tag \in ContainerTags }
    ELSE UNION { { Element(tag, a, f) :
                     a \in AttrsOf(tag),
                     f \in { g \in ForestsOfSize(n - 1) : Len(g) <= MaxChildren } } :
                 tag \in ContainerTags }

RECURSIVE Markup(_)
RECURSIVE MarkupAll(_)
MarkupAll(nodes) ==
    IF nodes = <<>> THEN <<>> ELSE Markup(Head(nodes)) \o MarkupAll(Tail(nodes))

Markup(node) ==
    IF node.Type = TextNode THEN EscapeString(node.Text)
    ELSE IF node.Data \in VoidTags THEN << OpenTag(node.Data, node.Attr) >>
    ELSE << OpenTag(node.Data, node.Attr) >> \o MarkupAll(node.Children)
            \o << CloseTag(node.Data) >>

Renders ==
    { Markup(t) : t \in { u \in UNION { TreesOfSize(n) : n \in 1..MaxNodes } :
                            u.Type = ElementNode } }

\* the DOM the browser builds from markup
BuildDom(html) == InnerHTML(html)

VARIABLES
    oldHTML,        \* SpecDiff: the previous render
    newHTML,        \* SpecDiff: the new render
    dphase,         \* SpecDiff: "built" | "applied"
    container,      \* client: the child nodes of the container element
    focusedInput,   \* client: the id of the focused control, 0 for none
    pendingInputs,  \* client: the ids of the controls with pending local edits
    received,       \* client: the number of render messages applied
    now,            \* client: the time, in units of 100 ms
    debounceTimers, \* client: control id -> the time its debounce timer fires
    graceTimers,    \* client: the running grace timers, [el, at]
    pushed,         \* client: the calls of pushEvent for change events, in order
    inputs,         \* the input events so far, [el, at], in order
    components,     \* Handler.components: the registered component names
    sockets,        \* Handler.sockets: socket id -> the connection whose socket it is
    pc,             \* where each connection's HandleWebSocket call stands
    comp,           \* the component each connection resolved
    socket,         \* each connection's Socket
    outbox,         \* the messages written to each connection, in order
    nEvents,        \* the inbound messages each connection has read
    tick,           \* what the last render or loop iteration of each connection did
    mounted,        \* how each connection's Mount call ended: "no" | "ok" | "err"
    everStored,     \* whether the connection's socket was ever put in the registry
    sess,           \* workers: the Socket (assigns and session flashes) they share
    mu,             \* workers: the holder of Session.mu, 0 when it is free
    wpc,            \* workers: where each worker's call stands
    wop,            \* workers: the call each worker is in
    wlocal,         \* workers: the local variables msg, ok of a GetFlash call
    history,        \* workers: the calls that returned, in the order of their return
    started,        \* workers: the number of calls started
    tagged,         \* the responses of HandleComponentTag, in order
    hmu,            \* workers: Handler.mu, its writer (0 for none) and its readers
    ws,             \* client: this.ws, the number of the connection and its readyState
    retry,          \* client: the seconds left on the reconnect timer, -1 for no timer
    pushes,         \* client: the calls of pushEvent, in order
    element,        \* client: the lv-component element, "none" | "connected" | "removed"
    tc,             \* the TemplateComponent a component instance embeds
    chat,           \* examples/chat.go: chatMessages, nextMessageID, chatMessagesMu
    todo            \* the todo component's assigns on one socket

dvars == <<oldHTML, newHTML, dphase>>

cvars == <<container, focusedInput, pendingInputs, received>>

tvars == <<now, debounceTimers, graceTimers, pushed, inputs>>

svars == <<components, sockets, pc, comp, socket, outbox, nEvents, tick, mounted,
          everStored>>

xvars == <<element, tc, chat, todo>>

nvars == <<ws, retry, pushes, xvars>>

wrest == <<sess, mu, wpc, wop, wlocal, history, started, tagged, hmu>>

wvars == <<wrest, nvars>>

vars == <<dvars, cvars, tvars, svars, wvars>>

(***************************************************************************)
(* The connection handler.                                                 *)
(***************************************************************************)
\* inbound messages one connection may read
MaxEvents == 2

\* Spec follows one connection through its whole life
Conns == {1}

\* the socket_id query parameter is the client's choice
SocketIds == {"", "s1"}

\* The registered components, by what the router can see of them: the
\* Handle<Event> methods and whether HandleEvent (EventHandler) is implemented.
\* "counter" is examples/counter.go's CounterComponent, "form" is FormComponent.
ComponentNames == {"counter", "form"}

MethodsOf(name) ==
    IF name = "counter" THEN {"HandleIncrement"}
    ELSE {"HandleSubmit", "HandleEvent"}

IsEventHandler(name) == "HandleEvent" \in MethodsOf(name)

EventNames == {"increment", "submit", "nonexistent", "event"}

\* strings.ToUpper(s[:1]) + s[1:]
toTitle(s) ==
    CASE s = "increment" -> "Increment"
      [] s = "submit" -> "Submit"
      [] s = "nonexistent" -> "Nonexistent"
      [] s = "event" -> "Event"
      [] OTHER -> s

\* the flash categories looked at from the last to the first
flashTypesReversed == << "warning", "info", "error", "success" >>

\* addFlashToData's flashTypes, in order
flashTypes == << "success", "error", "info", "warning" >>

\* the categories the model's handlers put flashes under
PutKeys == {"success", "warning"}

NoFlashes == [x \in {} |-> 0]

NewSocket(id) ==
    [ID |-> id, Assigns |-> [x \in {} |-> 0], Flashes |-> NoFlashes,
     previousHTML |-> <<>>]

NoSocket == NewSocket("")

\* an Assign that replaces the assigns by its argument
AssignReplacing(s, assigns) == [s EXCEPT !.Assigns = assigns]

\* Socket.Assign
Assign(s, assigns) ==
    [s EXCEPT !.Assigns = [k \in DOMAIN @ \cup DOMAIN assigns |->
                              IF k \in DOMAIN assigns THEN assigns[k] ELSE @[k]]]

\* Session.PutFlash
PutFlash(s, key, message) ==
    [s EXCEPT !.Flashes = [k \in DOMAIN @ \cup {key} |->
                              IF k = key THEN message ELSE @[k]]]

\* a GetFlash that reads without deleting
GetFlashKeeping(s, key) ==
    IF key \in DOMAIN s.Flashes
    THEN [msg |-> s.Flashes[key], ok |-> TRUE, socket |-> s]
    ELSE [msg |-> 0, ok |-> FALSE, socket |-> s]

\* Session.GetFlash: the message, whether there was one, and the socket after
GetFlash(s, key) ==
    IF key \in DOMAIN s.Flashes
    THEN [msg |-> s.Flashes[key], ok |-> TRUE,
          socket |-> [s EXCEPT !.Flashes = [k \in DOMAIN @ \ {key} |-> @[k]]]]
    ELSE [msg |-> 0, ok |-> FALSE, socket |-> s]

RECURSIVE PutFlashes(_, _, _)
PutFlashes(s, keys, message) ==
    IF keys = {} THEN s
    ELSE LET key == CHOOSE k \in keys : TRUE
         IN PutFlashes(PutFlash(s, key, message), keys \ {key}, message)

\* addFlashToData: the render data and the socket after the first pending flash
\* of flashTypes was taken
RECURSIVE addFlashFrom(_, _, _)
addFlashFrom(i, s, data) ==
    IF i > Len(flashTypes) THEN [data |-> data, socket |-> s]
    ELSE LET got == GetFlash(s, flashTypes[i])
         IN IF got.ok
            THEN [data |-> [html |-> data.html,
                            flash |-> [type |-> flashTypes[i], message |-> got.msg]],
                  socket |-> got.socket]
            ELSE addFlashFrom(i + 1, s, data)

addFlashToData(s, data) == addFlashFrom(1, s, data)

\* What a component's code may do in one call of Mount or of a handler: assign,
\* put flashes, and return nil or an error.
HandlerOutcomes == [assign : {"keep", "inc"}, flash : SUBSET PutKeys, err : BOOLEAN]

MountOutcomes == [flash : SUBSET PutKeys, err : BOOLEAN]

Count(s) == IF "count" \in DOMAIN s.Assigns THEN s.Assigns["count"] ELSE 0

\* a handler call whose Assign is lost
RunHandlerKeeping(s, o, message) == PutFlashes(s, o.flash, message)

\* the socket after a handler call with outcome o; message says which call put
\* the flash
RunHandler(s, o, message) ==
    LET assigned == IF o.assign = "inc" THEN Assign(s, [count |-> Count(s) + 1]) ELSE s
    IN PutFlashes(assigned, o.flash, message)

\* Component.Render of a component other than the counter: a function of the
\* assigns
RenderHTML(s) ==
    << OpenTag("div", NoAttr), Chr(ToString(Count(s))), CloseTag("div") >>

\* CounterComponent.Render's inline template (examples/counter.go 59-106): any
\* run of white space is one blank, a run of other text one character
CounterRender(s) ==
    << Chr(" "), OpenTag("div", [class |-> "counter"]), Chr(" "),
       OpenTag("h1", NoAttr), Chr("LiveView Counter"), CloseTag("h1"), Chr(" "),
       OpenTag("div", [class |-> "count-display"]), Chr(" "),
       OpenTag("h2", NoAttr), Chr("Count: "), Chr(ToString(Count(s))), CloseTag("h2"),
       Chr(" "), CloseTag("div"), Chr(" "),
       OpenTag("div", [class |-> "buttons"]), Chr(" "),
       OpenTag("button", "lv-click" :> "decrement"), Chr("-"), CloseTag("button"),
       Chr(" "),
       OpenTag("button", "lv-click" :> "reset"), Chr("Reset"), CloseTag("button"),
       Chr(" "),
       OpenTag("button", "lv-click" :> "increment"), Chr("+"), CloseTag("button"),
       Chr(" "), CloseTag("div"), Chr(" "), CloseTag("div"), Chr(" "),
       OpenTag("style", NoAttr), Chr(".counter { ... }"), CloseTag("style"), Chr(" ") >>

\* component.Render(socket) of the component registered under name
Render(name, s) == IF name = "counter" THEN CounterRender(s) ELSE RenderHTML(s)

\* what the handlers of the component registered under name may do: the
\* counter's handlers assign and return nil (examples/counter.go 25-48)
OutcomesOf(name) ==
    IF name = "counter" THEN {[assign |-> "inc", flash |-> {}, err |-> FALSE]}
    ELSE HandlerOutcomes

\* CounterComponent.Mount assigns count 0 and returns nil (examples/counter.go
\* 17-22)
MountOutcomesOf(name) ==
    IF name = "counter" THEN {[flash |-> {}, err |-> FALSE]} ELSE MountOutcomes

\* event: the event read ("#initial" for the first render); calls: the handlers
\* invoked, in order, each with its result "nil" | "err" | "panic"; render: "none" | "ok" |
\* "err"; prev, new: the last successful render before this one, and this one;
\* flashes: the flashes pending when the render data was built; sent: "none" |
\* "ok" | "fail"
NoTick ==
    [event |-> "", calls |-> <<>>, render |-> "none", prev |-> <<>>, new |-> <<>>,
     flashes |-> NoFlashes, sent |-> "none"]

InitServer ==
    /\ components = ComponentNames
    /\ sockets = [x \in {} |-> 0]
    /\ pc = [c \in Conns |-> "new"]
    /\ comp = [c \in Conns |-> ""]
    /\ socket = [c \in Conns |-> NoSocket]
    /\ outbox = [c \in Conns |-> <<>>]
    /\ nEvents = [c \in Conns |-> 0]
    /\ tick = [c \in Conns |-> NoTick]
    /\ mounted = [c \in Conns |-> "no"]
    /\ everStored = [c \in Conns |-> FALSE]

ServerOff ==
    /\ components = {}
    /\ sockets = [x \in {} |-> 0]
    /\ pc = [c \in Conns |-> "closed"]
    /\ comp = [c \in Conns |-> ""]
    /\ socket = [c \in Conns |-> NoSocket]
    /\ outbox = [c \in Conns |-> <<>>]
    /\ nEvents = [c \in Conns |-> 0]
    /\ tick = [c \in Conns |-> NoTick]
    /\ mounted = [c \in Conns |-> "no"]
    /\ everStored = [c \in Conns |-> FALSE]

\* the constructor's empty debounceTimers; nothing typed, nothing pushed
TimersOff ==
    /\ now = 0
    /\ debounceTimers = [x \in {} |-> 0]
    /\ graceTimers = {}
    /\ pushed = <<>>
    /\ inputs = <<>>

ClientOff ==
    /\ container = <<>>
    /\ focusedInput = 0
    /\ pendingInputs = {}
    /\ received = 0
    /\ TimersOff

DiffOff ==
    /\ oldHTML = <<>>
    /\ newHTML = <<>>
    /\ dphase = "off"

\* the workers of SpecSession and SpecRegistry
Workers == {1, 2}

\* calls started in one run
MaxCalls == 3

\* the constructor's this.ws = null; no reconnect timer, nothing pushed
NoWs == [n |-> 0, readyState |-> "none"]

ConnOff ==
    /\ ws = NoWs
    /\ retry = -1
    /\ pushes = <<>>

\* a sync.RWMutex nobody holds
Unlocked == [writer |-> 0, readers |-> {}]

\* a TemplateComponent as a component literal leaves it; the content of a
\* template is the sequence of its pieces, empty for the empty string
NoTemplate == [TemplateDir |-> "", TemplateName |-> "", templateContent |-> <<>>]

\* examples/chat.go:21-25: the package variables as initialized; added counts
\* the messages ever added
NoChat == [messages |-> <<>>, nextMessageID |-> 1, mu |-> Unlocked, added |-> 0]

\* the todo component's assigns before Mount; calls counts the handler calls
\* and event names the last one
NoTodo ==
    [todos |-> <<>>, newTodo |-> "", nextID |-> 0, filter |-> "", editingID |-> 0,
     editText |-> "", flashes |-> [k \in {} |-> ""], calls |-> 0, event |-> ""]

ExamplesOff ==
    /\ element = "none"
    /\ tc = NoTemplate
    /\ chat = NoChat
    /\ todo = NoTodo

NoCall == [op |-> "", key |-> "", msg |-> 0, assigns |-> [x \in {} |-> 0]]

CallsOff ==
    /\ sess = NoSocket
    /\ mu = 0
    /\ wpc = [w \in Workers |-> "off"]
    /\ wop = [w \in Workers |-> NoCall]
    /\ wlocal = [w \in Workers |-> [msg |-> 0, ok |-> FALSE]]
    /\ history = <<>>
    /\ started = 0
    /\ tagged = <<>>
    /\ hmu = Unlocked

WorkersOff ==
    /\ CallsOff
    /\ ConnOff
    /\ ExamplesOff

\* HandleWebSocket, lines 45-64: look the component up, upgrade, NewSocket
ConnectWith(c, name, id) ==
    /\ pc[c] = "new"
    /\ \E upgraded \in BOOLEAN :
          IF name \notin components \/ ~upgraded
          THEN /\ pc' = [pc EXCEPT ![c] = "closed"]
               /\ UNCHANGED <<comp, socket>>
          ELSE /\ pc' = [pc EXCEPT ![c] = "mount"]
               /\ comp' = [comp EXCEPT ![c] = name]
               /\ socket' = [socket EXCEPT ![c] = NewSocket(id)]
    /\ UNCHANGED <<components, sockets, outbox, nEvents, tick, mounted, everStored>>
    /\ UNCHANGED <<dvars, cvars, tvars, wvars>>

\* a request for any component name, registered or not, with any socket_id
Connect(c) ==
    \E name \in ComponentNames \cup {"missing"}, id \in SocketIds :
        ConnectWith(c, name, id)

\* a Mount step whose error is not checked
MountIgnoringError(c) ==
    /\ pc[c] = "mount"
    /\ \E o \in MountOutcomesOf(comp[c]) :
          /\ socket' = [socket EXCEPT ![c] =
                            PutFlashes(Assign(@, [count |-> 0]), o.flash, 0)]
          /\ pc' = [pc EXCEPT ![c] = "store"]
          /\ mounted' = [mounted EXCEPT ![c] = IF o.err THEN "err" ELSE "ok"]
    /\ UNCHANGED <<components, sockets, comp, outbox, nEvents, tick, everStored>>
    /\ UNCHANGED <<dvars, cvars, tvars, wvars>>

\* lines 66-70: component.Mount(socket)
Mount(c) ==
    /\ pc[c] = "mount"
    /\ \E o \in MountOutcomesOf(comp[c]) :
          /\ socket' = [socket EXCEPT ![c] =
                            PutFlashes(Assign(@, [count |-> 0]), o.flash, 0)]
          /\ pc' = [pc EXCEPT ![c] = IF o.err THEN "closed" ELSE "store"]
          /\ mounted' = [mounted EXCEPT ![c] = IF o.err THEN "err" ELSE "ok"]
    /\ UNCHANGED <<components, sockets, comp, outbox, nEvents, tick, everStored>>
    /\ UNCHANGED <<dvars, cvars, tvars, wvars>>

\* a store step that enters the loop without the initial render
StoreSocketSkippingRender(c) ==
    /\ pc[c] = "store"
    /\ sockets' = [id \in DOMAIN sockets \cup {socket[c].ID} |->
                      IF id = socket[c].ID THEN c ELSE sockets[id]]
    /\ everStored' = [everStored EXCEPT ![c] = TRUE]
    /\ pc' = [pc EXCEPT ![c] = "loop"]
    /\ UNCHANGED <<components, comp, socket, outbox, nEvents, tick, mounted>>
    /\ UNCHANGED <<dvars, cvars, tvars, wvars>>

\* lines 72-75: h.sockets[socket.ID] = socket
StoreSocket(c) ==
    /\ pc[c] = "store"
    /\ sockets' = [id \in DOMAIN sockets \cup {socket[c].ID} |->
                      IF id = socket[c].ID THEN c ELSE sockets[id]]
    /\ everStored' = [everStored EXCEPT ![c] = TRUE]
    /\ pc' = [pc EXCEPT ![c] = "render"]
    /\ UNCHANGED <<components, comp, socket, outbox, nEvents, tick, mounted>>
    /\ UNCHANGED <<dvars, cvars, tvars, wvars>>

\* lines 119-134 (and 77-92 for the first render): Render, addFlashToData,
\* sendMessage.  next is where the handler goes after a failed render and after a
\* failed send.
RenderAndSend(c, s, t, renderOk, sendOk, onRenderErr, onSendErr) ==
    IF ~renderOk
    THEN /\ socket' = [socket EXCEPT ![c] = s]
         /\ tick' = [tick EXCEPT ![c] = [t EXCEPT !.render = "err"]]
         /\ pc' = [pc EXCEPT ![c] = onRenderErr]
         /\ UNCHANGED outbox
    ELSE
      LET html == Render(comp[c], s)
          r == addFlashToData(s, [html |-> html])
      IN /\ socket' = [socket EXCEPT ![c] = r.socket]
         /\ tick' = [tick EXCEPT ![c] =
                        [t EXCEPT !.render = "ok", !.new = html,
                                  !.flashes = s.Flashes,
                                  !.sent = IF sendOk THEN "ok" ELSE "fail"]]
         /\ IF sendOk
            THEN /\ outbox' = [outbox EXCEPT ![c] = Append(@, r.data)]
                 /\ pc' = [pc EXCEPT ![c] = "loop"]
            ELSE /\ UNCHANGED outbox
                 /\ pc' = [pc EXCEPT ![c] = onSendErr]

\* the tick record a loop iteration starts from
StartTick(c, event) ==
    [event |-> event, calls |-> <<>>, render |-> "none",
     prev |-> IF tick[c].render = "ok" THEN tick[c].new ELSE tick[c].prev,
     new |-> <<>>, flashes |-> NoFlashes, sent |-> "none"]

\* lines 77-92: the initial render
InitialRender(c) ==
    /\ pc[c] = "render"
    /\ \E renderOk \in BOOLEAN, sendOk \in BOOLEAN :
          RenderAndSend(c, socket[c], StartTick(c, "#initial"), renderOk, sendOk,
                        "closed", "closed")
    /\ UNCHANGED <<components, sockets, comp, nEvents, mounted, everStored>>
    /\ UNCHANGED <<dvars, cvars, tvars, wvars>>

\* lines 97-102: ReadJSON fails (the client went away, or sent malformed data)
ReadError(c) ==
    /\ pc[c] = "loop"
    /\ pc' = [pc EXCEPT ![c] = "cleanup"]
    /\ UNCHANGED <<components, sockets, comp, socket, outbox, nEvents, tick, mounted, everStored>>
    /\ UNCHANGED <<dvars, cvars, tvars, wvars>>

\* a continue that leaves the handler's writes in the socket the registry holds
\* under the connection's socket id
ContinueOnRegisteredSocket(c, s, t) ==
    /\ socket' = [socket EXCEPT
                     ![IF s.ID \in DOMAIN sockets THEN sockets[s.ID] ELSE c] = s]
    /\ tick' = [tick EXCEPT ![c] = t]
    /\ UNCHANGED <<pc, outbox>>

\* the loop goes on to the next message without rendering
Continue(c, s, t) ==
    /\ socket' = [socket EXCEPT ![c] = s]
    /\ tick' = [tick EXCEPT ![c] = t]
    /\ UNCHANGED <<pc, outbox>>

\* a panic unwinds HandleWebSocket: the deferred conn.Close() runs, the cleanup
\* at the end of the function does not
Panic(c, s, t) ==
    /\ socket' = [socket EXCEPT ![c] = s]
    /\ tick' = [tick EXCEPT ![c] = t]
    /\ pc' = [pc EXCEPT ![c] = "closed"]
    /\ UNCHANGED outbox

Result(o) == IF o.err THEN "err" ELSE "nil"

Call(t, handler, result) ==
    [t EXCEPT !.calls = Append(@, [handler |-> handler, result |-> result])]

\* a re-render whose message is written twice
RerenderSendingTwice(c, s, t) ==
    LET html == Render(comp[c], s)
        r == addFlashToData(s, [html |-> html])
    IN /\ socket' = [socket EXCEPT ![c] = r.socket]
       /\ tick' = [tick EXCEPT ![c] =
                      [t EXCEPT !.render = "ok", !.new = html, !.flashes = s.Flashes,
                                !.sent = "ok"]]
       /\ outbox' = [outbox EXCEPT ![c] = Append(Append(@, r.data), r.data)]
       /\ pc' = [pc EXCEPT ![c] = "loop"]

\* a re-render whose failure ends the loop
RerenderLeavingOnError(c, s, t) ==
    \E renderOk \in BOOLEAN, sendOk \in BOOLEAN :
        RenderAndSend(c, s, t, renderOk, sendOk, "cleanup", "cleanup")

\* lines 119-134 after a handled event
Rerender(c, s, t) ==
    \E renderOk \in BOOLEAN, sendOk \in BOOLEAN :
        RenderAndSend(c, s, t, renderOk, sendOk, "loop", "cleanup")

\* a fallback without the continue of line 115
FallbackFallingThrough(c, s, t, event) ==
    IF IsEventHandler(comp[c])
    THEN \E o \in HandlerOutcomes :
            LET s2 == RunHandler(s, o, nEvents[c] + 1)
                t2 == Call(t, "HandleEvent", Result(o))
            IN IF o.err THEN Continue(c, s2, t2) ELSE Rerender(c, s2, t2)
    ELSE Rerender(c, s, t)

\* lines 107-116: RouteEvent returned an error
Fallback(c, s, t, event) ==
    IF IsEventHandler(comp[c])
    THEN \E o \in HandlerOutcomes :
            LET s2 == RunHandler(s, o, nEvents[c] + 1)
                t2 == Call(t, "HandleEvent", Result(o))
            IN IF o.err THEN Continue(c, s2, t2) ELSE Rerender(c, s2, t2)
    ELSE Continue(c, s, t)

\* lines 95-135: one iteration of the loop on an inbound message: RouteEvent
\* (part_001 250-279), the EventHandler fallback, the re-render
HandleMessage(c) ==
    /\ pc[c] = "loop"
    /\ nEvents[c] < MaxEvents
    /\ nEvents' = [nEvents EXCEPT ![c] = @ + 1]
    /\ \E event \in EventNames :
          LET methodName == "Handle" \o toTitle(event)
              t == StartTick(c, event)
              s == socket[c]
          IN IF methodName \notin MethodsOf(comp[c])
             THEN Fallback(c, s, t, event)
             ELSE IF methodName = "HandleEvent"
             \* method.Call with two arguments on the three-parameter HandleEvent
             THEN Panic(c, s, Call(t, methodName, "panic"))
             ELSE \E o \in OutcomesOf(comp[c]) :
                     LET s1 == RunHandler(s, o, nEvents[c] + 1)
                         t1 == Call(t, methodName, Result(o))
                     IN IF o.err THEN Fallback(c, s1, t1, event)
                        ELSE Rerender(c, s1, t1)
    /\ UNCHANGED <<components, sockets, comp, mounted, everStored>>
    /\ UNCHANGED <<dvars, cvars, tvars, wvars>>

\* lines 137-140: delete(h.sockets, socket.ID)
Cleanup(c) ==
    /\ pc[c] = "cleanup"
    /\ sockets' = [id \in DOMAIN sockets \ {socket[c].ID} |-> sockets[id]]
    /\ pc' = [pc EXCEPT ![c] = "closed"]
    /\ UNCHANGED <<components, comp, socket, outbox, nEvents, tick, mounted, everStored>>
    /\ UNCHANGED <<dvars, cvars, tvars, wvars>>

Init == InitServer /\ ClientOff /\ DiffOff /\ WorkersOff

Next ==
    \E c \in Conns :
        \/ Connect(c)
        \/ Mount(c)
        \/ StoreSocket(c)
        \/ InitialRender(c)
        \/ ReadError(c)
        \/ HandleMessage(c)
        \/ Cleanup(c)

Spec == Init /\ [][Next]_vars

(***************************************************************************)
(* SpecPair: two connections served by one Handler, each by its own call   *)
(* of HandleWebSocket; they may name the same component and present the    *)
(* same socket_id.                                                         *)
(***************************************************************************)
Pair == {1, 2}

\* inbound messages the two connections may read together
MaxPairEvents == 1

InitPair ==
    /\ components = ComponentNames
    /\ sockets = [x \in {} |-> 0]
    /\ pc = [c \in Pair |-> "new"]
    /\ comp = [c \in Pair |-> ""]
    /\ socket = [c \in Pair |-> NoSocket]
    /\ outbox = [c \in Pair |-> <<>>]
    /\ nEvents = [c \in Pair |-> 0]
    /\ tick = [c \in Pair |-> NoTick]
    /\ mounted = [c \in Pair |-> "no"]
    /\ everStored = [c \in Pair |-> FALSE]
    /\ ClientOff
    /\ DiffOff
    /\ WorkersOff

\* SpecPair follows the runs in which both connections are served without a
\* failure of Mount, Render or send (Spec covers those): a connection that
\* met one takes no further step here
Served(c) ==
    /\ mounted[c] # "err"
    /\ tick[c].render # "err"
    /\ tick[c].sent # "fail"

\* connection 1 is the one that reads events, connection 2 the other one
MayRead(c) == c = 1 /\ nEvents[c] < MaxPairEvents

NextPair ==
    \E c \in Pair :
        \/ Served(c) /\ Connect(c)
        \/ Served(c) /\ Mount(c)
        \/ Served(c) /\ StoreSocket(c)
        \/ Served(c) /\ InitialRender(c)
        \/ Served(c) /\ ReadError(c)
        \/ Served(c) /\ MayRead(c) /\ HandleMessage(c)
        \/ Served(c) /\ Cleanup(c)

SpecPair == InitPair /\ [][NextPair]_vars

(***************************************************************************)
(* SpecTag: one connection served by HandleWebSocket while discovery       *)
(* requests arrive at HandleComponentTag.                                  *)
(***************************************************************************)
\* discovery requests of one run
MaxTags == 1

\* what generateSocketID and generateComponentID may return
GeneratedSocketIds == {"socket_a", "s1"}

GeneratedComponentIds == {"lv-a"}

NoResponse ==
    [name |-> "", status |-> 0, mounts |-> 0, html |-> <<>>, socket_id |-> "",
     component_id |-> ""]

\* a HandleComponentTag that keeps its socket in the registry
HandleComponentTagStoring ==
    /\ Len(tagged) < MaxTags
    /\ \E sid \in GeneratedSocketIds :
          /\ sockets' = [id \in DOMAIN sockets \cup {sid} |->
                            IF id = sid THEN 0 ELSE sockets[id]]
          /\ tagged' = Append(tagged, [NoResponse EXCEPT !.status = 200,
                                                          !.socket_id = sid])
    /\ UNCHANGED <<components, pc, comp, socket, outbox, nEvents, tick, mounted,
                   everStored>>
    /\ UNCHANGED <<dvars, cvars, tvars, sess, mu, wpc, wop, wlocal, history, started, hmu,
                   nvars>>

\* HandleComponentTag, lines 174-209: mounts counts the calls of Mount
HandleComponentTag ==
    /\ Len(tagged) < MaxTags
    /\ \E name \in ComponentNames \cup {"missing"} :
          IF name \notin components
          THEN tagged' = Append(tagged, [NoResponse EXCEPT !.name = name,
                                                            !.status = 404])
          ELSE \E o \in MountOutcomesOf(name), renderOk \in BOOLEAN,
                  sid \in GeneratedSocketIds, cid \in GeneratedComponentIds :
                  LET s == PutFlashes(Assign(NewSocket(""), [count |-> 0]), o.flash, 0)
                      r == [NoResponse EXCEPT !.name = name, !.mounts = 1]
                  IN tagged' = Append(tagged,
                         IF o.err \/ ~renderOk THEN [r EXCEPT !.status = 500]
                         ELSE [r EXCEPT !.status = 200, !.html = Render(name, s),
                                        !.socket_id = sid, !.component_id = cid])
    /\ UNCHANGED svars
    /\ UNCHANGED <<dvars, cvars, tvars, sess, mu, wpc, wop, wlocal, history, started, hmu,
                   nvars>>

NextTag == Next \/ HandleComponentTag

SpecTag == Init /\ [][NextTag]_vars

(***************************************************************************)
(* SpecRegistry: the requests of two workers on one Handler, followed      *)
(* through their accesses to h.components and h.sockets and the calls of   *)
(* h.mu around them: Register, HandleWebSocket (lookup, store, cleanup)    *)
(* and the lookups of HandleComponentTag and HandleHTTP.                   *)
(***************************************************************************)
InitRegistry ==
    /\ sess = NoSocket
    /\ mu = 0
    /\ wpc = [w \in Workers |-> "idle"]
    /\ wop = [w \in Workers |-> NoCall]
    /\ wlocal = [w \in Workers |-> [msg |-> 0, ok |-> FALSE]]
    /\ history = <<>>
    /\ started = 0
    /\ tagged = <<>>
    /\ hmu = Unlocked
    /\ ConnOff
    /\ ExamplesOff
    /\ ServerOff
    /\ ClientOff
    /\ DiffOff

rvars == <<dvars, cvars, tvars, sess, mu, history, tagged, nvars,
           pc, comp, socket, outbox, nEvents, tick, mounted, everStored>>

\* a worker enters Register(name, component), HandleWebSocket or one of the
\* lookups of HandleComponentTag and HandleHTTP
RegistryCall(w) ==
    /\ wpc[w] = "idle" /\ started < MaxCalls
    /\ \E op \in {"Register", "HandleWebSocket", "HandleComponentTag"},
          name \in ComponentNames, id \in SocketIds :
          /\ wop' = [wop EXCEPT ![w] =
                        [NoCall EXCEPT !.op = op,
                                       !.key = IF op = "HandleWebSocket" THEN id ELSE name,
                                       !.assigns = [component |-> name]]]
          /\ wpc' = [wpc EXCEPT ![w] = IF op = "Register" THEN "lock" ELSE "rlock"]
    /\ started' = started + 1
    /\ UNCHANGED <<components, sockets, wlocal, hmu>>
    /\ UNCHANGED rvars

\* h.mu.RLock()
RegistryRLock(w) ==
    /\ wpc[w] = "rlock"
    /\ hmu.writer = 0
    /\ hmu' = [hmu EXCEPT !.readers = @ \cup {w}]
    /\ wpc' = [wpc EXCEPT ![w] = "lookup"]
    /\ UNCHANGED <<components, sockets, wop, wlocal, started>>
    /\ UNCHANGED rvars

\* component, exists := h.components[componentName]
RegistryLookup(w) ==
    /\ wpc[w] = "lookup"
    /\ wlocal' = [wlocal EXCEPT ![w] =
                     [msg |-> 0, ok |-> wop[w].assigns.component \in components]]
    /\ wpc' = [wpc EXCEPT ![w] = "runlock"]
    /\ UNCHANGED <<components, sockets, wop, hmu, started>>
    /\ UNCHANGED rvars

\* h.mu.RUnlock(); HandleWebSocket goes on to store its socket when the
\* component exists, the upgrade succeeds and Mount returns nil
RegistryRUnlock(w) ==
    /\ wpc[w] = "runlock"
    /\ hmu' = [hmu EXCEPT !.readers = @ \ {w}]
    /\ \E goesOn \in BOOLEAN :
          IF wop[w].op = "HandleWebSocket" /\ wlocal[w].ok /\ goesOn
          THEN /\ wpc' = [wpc EXCEPT ![w] = "lock"]
               /\ wop' = [wop EXCEPT ![w].msg = 1]
          ELSE /\ wpc' = [wpc EXCEPT ![w] = "idle"]
               /\ wop' = [wop EXCEPT ![w] = NoCall]
    /\ UNCHANGED <<components, sockets, wlocal, started>>
    /\ UNCHANGED rvars

\* a Lock that waits for the writer only
RegistryLockOverReaders(w) ==
    /\ wpc[w] = "lock"
    /\ hmu.writer = 0
    /\ hmu' = [hmu EXCEPT !.writer = w]
    /\ wpc' = [wpc EXCEPT ![w] = "write"]
    /\ UNCHANGED <<components, sockets, wop, wlocal, started>>
    /\ UNCHANGED rvars

\* h.mu.Lock()
RegistryLock(w) ==
    /\ wpc[w] = "lock"
    /\ hmu.writer = 0 /\ hmu.readers = {}
    /\ hmu' = [hmu EXCEPT !.writer = w]
    /\ wpc' = [wpc EXCEPT ![w] = "write"]
    /\ UNCHANGED <<components, sockets, wop, wlocal, started>>
    /\ UNCHANGED rvars

\* the write under the lock: h.components[name] = component (line 40),
\* h.sockets[socket.ID] = socket (line 74), delete(h.sockets, socket.ID)
\* (line 139); wop.msg is 1 before the store and 2 before the cleanup
RegistryWrite(w) ==
    /\ wpc[w] = "write"
    /\ IF wop[w].op = "Register"
       THEN /\ components' = components \cup {wop[w].key}
            /\ UNCHANGED sockets
       ELSE IF wop[w].msg = 1
       THEN /\ sockets' = [id \in DOMAIN sockets \cup {wop[w].key} |->
                              IF id = wop[w].key THEN w ELSE sockets[id]]
            /\ UNCHANGED components
       ELSE /\ sockets' = [id \in DOMAIN sockets \ {wop[w].key} |-> sockets[id]]
            /\ UNCHANGED components
    /\ wpc' = [wpc EXCEPT ![w] = "unlock"]
    /\ UNCHANGED <<wop, wlocal, hmu, started>>
    /\ UNCHANGED rvars

\* h.mu.Unlock(); after the store HandleWebSocket serves its connection and
\* comes to the cleanup unless it returned early (lines 81, 91) or panicked
RegistryUnlock(w) ==
    /\ wpc[w] = "unlock"
    /\ hmu' = [hmu EXCEPT !.writer = 0]
    /\ \E cleansUp \in BOOLEAN :
          IF wop[w].op = "HandleWebSocket" /\ wop[w].msg = 1 /\ cleansUp
          THEN /\ wpc' = [wpc EXCEPT ![w] = "lock"]
               /\ wop' = [wop EXCEPT ![w].msg = 2]
          ELSE /\ wpc' = [wpc EXCEPT ![w] = "idle"]
               /\ wop' = [wop EXCEPT ![w] = NoCall]
    /\ UNCHANGED <<components, sockets, wlocal, started>>
    /\ UNCHANGED rvars

NextRegistry ==
    \E w \in Workers :
        \/ RegistryCall(w)
        \/ RegistryRLock(w)
        \/ RegistryLookup(w)
        \/ RegistryRUnlock(w)
        \/ RegistryLock(w)
        \/ RegistryWrite(w)
        \/ RegistryUnlock(w)

SpecRegistry == InitRegistry /\ [][NextRegistry]_vars

(***************************************************************************)
(* SpecSession: one Socket used by the goroutine of its connection         *)
(* (worker 1: Assign, Set, Get, PutFlash, GetFlash) and by a second worker *)
(* that shares its Session (PutFlash, GetFlash).  The Session calls are    *)
(* followed statement by statement: Lock, the body, the deferred Unlock.   *)
(***************************************************************************)
\* the keys and values of the assigns
AssignKeys == {"count", "name"}

AssignValues == {1, 2}

\* the maps Assign is called with
AssignMaps == UNION { [D -> AssignValues] : D \in SUBSET AssignKeys }

\* Socket.Get
Get(s, key) ==
    IF key \in DOMAIN s.Assigns THEN [val |-> s.Assigns[key], ok |-> TRUE]
    ELSE [val |-> 0, ok |-> FALSE]

\* Socket.Set
Set(s, key, value) ==
    [s EXCEPT !.Assigns = [k \in DOMAIN @ \cup {key} |->
                              IF k = key THEN value ELSE @[k]]]

InitSession ==
    /\ sess = NewSocket("s1")
    /\ mu = 0
    /\ wpc = [w \in Workers |-> "idle"]
    /\ wop = [w \in Workers |-> NoCall]
    /\ wlocal = [w \in Workers |-> [msg |-> 0, ok |-> FALSE]]
    /\ history = <<>>
    /\ started = 0
    /\ tagged = <<>>
    /\ hmu = Unlocked
    /\ ConnOff
    /\ ExamplesOff
    /\ ServerOff
    /\ ClientOff
    /\ DiffOff

ovars == <<dvars, cvars, tvars, svars, tagged, hmu, nvars>>

\* the record of a call that returned
Returned(w, call, val, ok) ==
    [w |-> w, op |-> call.op, key |-> call.key, msg |-> call.msg,
     assigns |-> call.assigns, val |-> val, ok |-> ok]

\* Socket.Assign(assigns) by the connection's goroutine
AssignCall(w) ==
    /\ w = 1 /\ wpc[w] = "idle" /\ started < MaxCalls
    /\ \E m \in AssignMaps :
          /\ sess' = Assign(sess, m)
          /\ history' = Append(history,
                 Returned(w, [NoCall EXCEPT !.op = "Assign", !.assigns = m], 0, TRUE))
    /\ started' = started + 1
    /\ UNCHANGED <<mu, wpc, wop, wlocal>>
    /\ UNCHANGED ovars

\* Socket.Set(key, value) by the connection's goroutine
SetCall(w) ==
    /\ w = 1 /\ wpc[w] = "idle" /\ started < MaxCalls
    /\ \E k \in AssignKeys, v \in AssignValues :
          /\ sess' = Set(sess, k, v)
          /\ history' = Append(history,
                 Returned(w, [NoCall EXCEPT !.op = "Set", !.assigns = k :> v], 0, TRUE))
    /\ started' = started + 1
    /\ UNCHANGED <<mu, wpc, wop, wlocal>>
    /\ UNCHANGED ovars

\* Socket.Get(key) by the connection's goroutine
GetCall(w) ==
    /\ w = 1 /\ wpc[w] = "idle" /\ started < MaxCalls
    /\ \E k \in AssignKeys :
          history' = Append(history,
              Returned(w, [NoCall EXCEPT !.op = "Get", !.key = k],
                       Get(sess, k).val, Get(sess, k).ok))
    /\ started' = started + 1
    /\ UNCHANGED <<sess, mu, wpc, wop, wlocal>>
    /\ UNCHANGED ovars

\* a worker enters Socket.PutFlash(key, message) or Socket.GetFlash(key); the
\* message of a PutFlash is the number of the call
FlashCall(w) ==
    /\ wpc[w] = "idle" /\ started < MaxCalls
    /\ \E op \in {"PutFlash", "GetFlash"}, k \in PutKeys :
          wop' = [wop EXCEPT ![w] =
                     [NoCall EXCEPT !.op = op, !.key = k,
                                    !.msg = IF op = "PutFlash" THEN started + 1 ELSE 0]]
    /\ wpc' = [wpc EXCEPT ![w] = "lock"]
    /\ started' = started + 1
    /\ UNCHANGED <<sess, mu, wlocal, history>>
    /\ UNCHANGED ovars

\* a Lock that does not wait for the holder
SessionLockNotWaiting(w) ==
    /\ wpc[w] = "lock"
    /\ mu' = w
    /\ wpc' = [wpc EXCEPT ![w] = "body"]
    /\ UNCHANGED <<sess, wop, wlocal, history, started>>
    /\ UNCHANGED ovars

\* s.mu.Lock()
SessionLock(w) ==
    /\ wpc[w] = "lock"
    /\ mu = 0
    /\ mu' = w
    /\ wpc' = [wpc EXCEPT ![w] = "body"]
    /\ UNCHANGED <<sess, wop, wlocal, history, started>>
    /\ UNCHANGED ovars

\* Session.PutFlash: s.Flashes[key] = message
PutFlashBody(w) ==
    /\ wpc[w] = "body" /\ wop[w].op = "PutFlash"
    /\ sess' = PutFlash(sess, wop[w].key, wop[w].msg)
    /\ wpc' = [wpc EXCEPT ![w] = "unlock"]
    /\ UNCHANGED <<mu, wop, wlocal, history, started>>
    /\ UNCHANGED ovars

\* Session.GetFlash: msg, ok := s.Flashes[key]
GetFlashRead(w) ==
    /\ wpc[w] = "body" /\ wop[w].op = "GetFlash"
    /\ LET got == GetFlash(sess, wop[w].key)
       IN wlocal' = [wlocal EXCEPT ![w] = [msg |-> got.msg, ok |-> got.ok]]
    /\ wpc' = [wpc EXCEPT ![w] = "delete"]
    /\ UNCHANGED <<sess, mu, wop, history, started>>
    /\ UNCHANGED ovars

\* Session.GetFlash: if ok { delete(s.Flashes, key) }
GetFlashDelete(w) ==
    /\ wpc[w] = "delete"
    /\ sess' = IF wlocal[w].ok THEN GetFlash(sess, wop[w].key).socket ELSE sess
    /\ wpc' = [wpc EXCEPT ![w] = "unlock"]
    /\ UNCHANGED <<mu, wop, wlocal, history, started>>
    /\ UNCHANGED ovars

\* the deferred s.mu.Unlock() and the return
SessionUnlock(w) ==
    /\ wpc[w] = "unlock"
    /\ mu' = 0
    /\ wpc' = [wpc EXCEPT ![w] = "idle"]
    /\ history' = Append(history, Returned(w, wop[w], wlocal[w].msg,
                                           wop[w].op = "GetFlash" /\ wlocal[w].ok))
    /\ wop' = [wop EXCEPT ![w] = NoCall]
    /\ wlocal' = [wlocal EXCEPT ![w] = [msg |-> 0, ok |-> FALSE]]
    /\ UNCHANGED <<sess, started>>
    /\ UNCHANGED ovars

NextSession ==
    \E w \in Workers :
        \/ AssignCall(w)
        \/ SetCall(w)
        \/ GetCall(w)
        \/ FlashCall(w)
        \/ SessionLock(w)
        \/ PutFlashBody(w)
        \/ GetFlashRead(w)
        \/ GetFlashDelete(w)
        \/ SessionUnlock(w)

SpecSession == InitSession /\ [][NextSession]_vars

(***************************************************************************)
(* SpecDiff: a DOM built from one render receives the patch to another.    *)
(***************************************************************************)
\* the strings ComputeDiff is called with: the renders and the empty markup
DiffInputs == Renders \cup { <<>> }

InitDiff ==
    /\ oldHTML \in DiffInputs
    /\ newHTML \in DiffInputs
    /\ dphase = "built"
    /\ container = BuildDom(oldHTML)
    /\ focusedInput = 0
    /\ pendingInputs = {}
    /\ received = 0
    /\ TimersOff
    /\ ServerOff
    /\ WorkersOff

DiffAndApply ==
    /\ dphase = "built"
    /\ LET r == applyDiff(container, ComputeDiff(oldHTML, newHTML),
                          focusedInput, pendingInputs)
       IN /\ container' = r.nodes
          /\ pendingInputs' = r.pendingInputs
    /\ dphase' = "applied"
    /\ UNCHANGED <<oldHTML, newHTML, focusedInput, received>>
    /\ UNCHANGED <<tvars, svars, wvars>>

NextDiff == DiffAndApply

SpecDiff == InitDiff /\ [][NextDiff]_vars

(***************************************************************************)
(* SpecClient: a page built from one render, its user and the render       *)
(* messages of the server.  newHTML is the server's latest render, oldHTML *)
(* the one before; dphase is the kind of the last message.                 *)
(***************************************************************************)
\* render messages one page may receive
MaxMessages == 1

\* what the user types
Typed == "t"

InitClient ==
    /\ oldHTML \in Renders
    /\ newHTML = oldHTML
    /\ dphase = "built"
    /\ container = AdoptNew(BuildDom(oldHTML), 0, {})
    /\ focusedInput = 0
    /\ pendingInputs = {}
    /\ received = 0
    /\ TimersOff
    /\ ServerOff
    /\ WorkersOff

InDom(id) == \E r \in Controls(container) : r.id = id

\* setupFocusTracking, the focusin listener (lines 25-32)
FocusIn ==
    /\ focusedInput = 0 \/ ~InDom(focusedInput)
    /\ \E r \in Controls(container) :
          /\ focusedInput' = r.id
          /\ container' = captureInputState(container, r.id)
    /\ UNCHANGED <<pendingInputs, received>>
    /\ UNCHANGED <<dvars, tvars, svars, wvars>>

\* the focusout listener (lines 34-43)
FocusOut ==
    /\ focusedInput # 0
    /\ InDom(focusedInput)
    /\ pendingInputs' = pendingInputs \ {focusedInput}
    /\ container' = deleteInputState(container, focusedInput)
    /\ focusedInput' = 0
    /\ UNCHANGED received
    /\ UNCHANGED <<dvars, tvars, svars, wvars>>

\* the user types in the focused control; the input listener (lines 46-53)
Input ==
    /\ focusedInput # 0
    /\ InDom(focusedInput)
    /\ container' = captureInputState(SetValue(container, focusedInput, Typed),
                                       focusedInput)
    /\ pendingInputs' = pendingInputs \cup {focusedInput}
    /\ UNCHANGED <<focusedInput, received>>
    /\ UNCHANGED <<dvars, tvars, svars, wvars>>

\* ws.onmessage (lines 98-115) for a server whose renders are those of
\* renders: a message with a diff goes to applyDiff, one with html to patch,
\* and both end with attachEventListeners
OnMessageUpTo(renders, most) ==
    /\ received < most
    /\ \E render \in renders, kind \in {"diff", "html"} :
          LET msg == IF kind = "diff"
                     THEN [diff |-> ComputeDiff(newHTML, render)]
                     ELSE [html |-> render]
              r == IF "diff" \in DOMAIN msg
                   THEN applyDiff(container, msg.diff, focusedInput, pendingInputs)
                   ELSE patch(container, msg.html, focusedInput, pendingInputs)
          IN /\ kind = "diff" => msg.diff # NilDiff
             /\ container' = attachEventListeners(
                                 AdoptNew(r.nodes, focusedInput, r.pendingInputs))
             /\ pendingInputs' = r.pendingInputs
             /\ oldHTML' = newHTML
             /\ newHTML' = render
             /\ dphase' = kind
    /\ received' = received + 1
    /\ UNCHANGED focusedInput
    /\ UNCHANGED <<tvars, svars, wvars>>

OnMessageFrom(renders) == OnMessageUpTo(renders, MaxMessages)

OnMessage == OnMessageFrom(Renders)

NextClient ==
    \/ FocusIn
    \/ FocusOut
    \/ Input
    \/ OnMessage

SpecClient == InitClient /\ [][NextClient]_vars

RECURSIVE NodesById(_, _)
NodesById(nodes, id) ==
    UNION { (IF nodes[i].id = id THEN {nodes[i]} ELSE {})
                \cup NodesById(nodes[i].Children, id) : i \in 1..Len(nodes) }

\* the element the listeners of a control close over
NodeById(id) == CHOOSE n \in NodesById(container, id) : TRUE

(***************************************************************************)
(* SpecControl: a page that holds a form control, its user, who types and  *)
(* moves the caret, and the render messages of the server.                 *)
(***************************************************************************)
\* the renders of at most two nodes that hold a form control
ControlPages == { r \in Renders : Len(r) <= 3 /\ Controls(BuildDom(r)) # {} }

\* the server keeps rendering pages of this kind
OnControlMessage == OnMessageFrom(ControlPages)

InitControl ==
    /\ oldHTML \in ControlPages
    /\ newHTML = oldHTML
    /\ dphase = "built"
    /\ container = AdoptNew(BuildDom(oldHTML), 0, {})
    /\ focusedInput = 0
    /\ pendingInputs = {}
    /\ received = 0
    /\ TimersOff
    /\ ServerOff
    /\ WorkersOff

\* the user moves the caret or selects text in the focused control; the
\* selectionchange listener (lines 55-59) notes the position and nothing else
MoveCaret ==
    /\ focusedInput # 0
    /\ InDom(focusedInput)
    /\ LET node == NodeById(focusedInput)
       IN \E start \in 0..Len(node.value), end \in 0..Len(node.value) :
             /\ start <= end
             /\ << start, end >> # node.sel
             /\ container' = SetSelection(container, focusedInput, << start, end >>)
    /\ UNCHANGED <<focusedInput, pendingInputs, received>>
    /\ UNCHANGED <<dvars, tvars, svars, wvars>>

NextControl ==
    \/ FocusIn
    \/ FocusOut
    \/ Input
    \/ MoveCaret
    \/ OnControlMessage

SpecControl == InitControl /\ [][NextControl]_vars

(***************************************************************************)
(* SpecTimers: a page with two controls that declare a change trigger,     *)
(* the user who moves between them and types, and the timers of            *)
(* attachEventListeners.  Time advances in units of 100 ms; a timer that   *)
(* is due fires before time advances further.                              *)
(***************************************************************************)
\* the latest time of a run
MaxTime == 6

\* input events of a run
MaxTyped == 3

\* the delay of the grace timer: setTimeout(..., 100)
GraceDelay == 1

\* parseInt of a delay in milliseconds, in units of 100 ms
ParseMillis(str) ==
    CASE str = "200" -> 2
      [] str = "300" -> 3
      [] OTHER -> 0

\* parseInt(el.getAttribute('lv-debounce') || '300')
debounceMs(node) ==
    ParseMillis(IF "lv-debounce" \in DOMAIN node.Attr
                THEN node.Attr["lv-debounce"] ELSE "300")

\* the first control declares its own delay, the second takes the default
TimerPage ==
    << OpenTag("div", NoAttr),
       OpenTag("input", ("lv-change" :> "validate") @@ ("lv-debounce" :> "200")),
       OpenTag("input", "lv-change" :> "search"),
       CloseTag("div") >>

InitTimers ==
    /\ oldHTML = TimerPage
    /\ newHTML = TimerPage
    /\ dphase = "built"
    /\ container = AdoptNew(BuildDom(TimerPage), 0, {})
    /\ focusedInput = 0
    /\ pendingInputs = {}
    /\ received = 0
    /\ TimersOff
    /\ ServerOff
    /\ WorkersOff

\* an input listener that keeps one debounce timer for the whole page
TypeInSharedTimer ==
    /\ focusedInput # 0
    /\ InDom(focusedInput)
    /\ Len(inputs) < MaxTyped
    /\ LET el == focusedInput
           node == NodeById(el)
       IN /\ container' = captureInputState(SetValue(container, el, node.value \o Typed),
                                             el)
          /\ pendingInputs' = pendingInputs \cup {el}
          /\ debounceTimers' = [x \in {el} |-> now + debounceMs(node)]
          /\ inputs' = Append(inputs, [el |-> el, at |-> now])
    /\ UNCHANGED <<focusedInput, received, now, graceTimers, pushed>>
    /\ UNCHANGED <<dvars, svars, wvars>>

\* the user types one more character in the focused control: the input
\* listener of setupFocusTracking (lines 46-53) and, on a control with
\* lv-change, the input listener of attachEventListeners (lines 156-182)
TypeIn ==
    /\ focusedInput # 0
    /\ InDom(focusedInput)
    /\ Len(inputs) < MaxTyped
    /\ LET el == focusedInput
           node == NodeById(el)
       IN /\ container' = captureInputState(SetValue(container, el, node.value \o Typed),
                                             el)
          /\ pendingInputs' = pendingInputs \cup {el}
          /\ debounceTimers' =
                IF "lv-change" \in DOMAIN node.Attr
                THEN [x \in DOMAIN debounceTimers \cup {el} |->
                         IF x = el THEN now + debounceMs(node) ELSE debounceTimers[x]]
                ELSE debounceTimers
          /\ inputs' = Append(inputs, [el |-> el, at |-> now])
    /\ UNCHANGED <<focusedInput, received, now, graceTimers, pushed>>
    /\ UNCHANGED <<dvars, svars, wvars>>

\* the debounce timer of a control fires (lines 164-180): pushEvent with the
\* control's value, the timer is forgotten, the grace timer starts
DebounceFire(el) ==
    /\ el \in DOMAIN debounceTimers
    /\ debounceTimers[el] <= now
    /\ LET node == NodeById(el)
       IN pushed' = Append(pushed, [event |-> node.Attr["lv-change"], el |-> el,
                                    value |-> node.value, at |-> now])
    /\ debounceTimers' = [x \in DOMAIN debounceTimers \ {el} |-> debounceTimers[x]]
    /\ graceTimers' = graceTimers \cup {[el |-> el, at |-> now + GraceDelay]}
    /\ UNCHANGED <<container, focusedInput, pendingInputs, received, now, inputs>>
    /\ UNCHANGED <<dvars, svars, wvars>>

\* a grace timer fires (lines 174-179)
GraceFire(g) ==
    /\ g \in graceTimers
    /\ g.at <= now
    /\ pendingInputs' = IF focusedInput # g.el THEN pendingInputs \ {g.el}
                        ELSE pendingInputs
    /\ graceTimers' = graceTimers \ {g}
    /\ UNCHANGED <<container, focusedInput, received, now, debounceTimers, pushed,
                   inputs>>
    /\ UNCHANGED <<dvars, svars, wvars>>

\* 100 ms pass with no timer due
Tick ==
    /\ now < MaxTime
    /\ \A el \in DOMAIN debounceTimers : debounceTimers[el] > now
    /\ \A g \in graceTimers : g.at > now
    /\ now' = now + 1
    /\ UNCHANGED <<container, focusedInput, pendingInputs, received, debounceTimers,
                   graceTimers, pushed, inputs>>
    /\ UNCHANGED <<dvars, svars, wvars>>

NextTimers ==
    \/ FocusIn
    \/ FocusOut
    \/ TypeIn
    \/ \E el \in DOMAIN debounceTimers : DebounceFire(el)
    \/ \E g \in graceTimers : GraceFire(g)
    \/ Tick

SpecTimers == InitTimers /\ [][NextTimers]_vars

(***************************************************************************)
(* SpecRetry: the client's WebSocket alone.  connectWebSocket creates it,  *)
(* the network opens and closes it, onclose arms the reconnect timer, and  *)
(* the page pushes events at any time.  SpecRetryFair adds that time       *)
(* passes, that a timer that is due fires, and that a connection attempt   *)
(* made again and again is answered by the server at some point.           *)
(***************************************************************************)

\* connections told apart by their number; later ones share the last number
MaxConns == 2

\* calls of pushEvent in a run
MaxPushes == 2

\* liveview.js:122: setTimeout(..., 1000), in seconds
RetryDelay == 1

NextConn(n) == IF n < MaxConns THEN n + 1 ELSE n

oldvars == <<dvars, cvars, tvars, svars, wrest, xvars>>

\* liveview.js:89 and 122: connectWebSocket, called by the constructor and by
\* the reconnect timer when it is due; line 96 replaces this.ws
connectWebSocket ==
    /\ ws = NoWs \/ retry = 0
    /\ ws' = [n |-> NextConn(ws.n), readyState |-> "CONNECTING"]
    /\ retry' = -1
    /\ UNCHANGED <<pushes, oldvars>>

\* lines 117-119: the handshake succeeded
onopen ==
    /\ ws.readyState = "CONNECTING"
    /\ ws' = [ws EXCEPT !.readyState = "OPEN"]
    /\ UNCHANGED <<retry, pushes, oldvars>>

\* an onclose that arms the timer for the first connection only
oncloseOnce ==
    /\ ws.readyState \in {"CONNECTING", "OPEN", "CLOSING"}
    /\ ws' = [ws EXCEPT !.readyState = "CLOSED"]
    /\ retry' = IF ws.n = 1 THEN RetryDelay ELSE -1
    /\ UNCHANGED <<pushes, oldvars>>

\* lines 121-123: the connection failed, was lost or was closed by the page;
\* the handler arms the reconnect timer whatever the reason of the close
onclose ==
    /\ ws.readyState \in {"CONNECTING", "OPEN", "CLOSING"}
    /\ ws' = [ws EXCEPT !.readyState = "CLOSED"]
    /\ retry' = RetryDelay
    /\ UNCHANGED <<pushes, oldvars>>

\* a second passes on the reconnect timer
RetryTimePasses ==
    /\ retry > 0
    /\ retry' = retry - 1
    /\ UNCHANGED <<ws, pushes, oldvars>>

\* a pushEvent that sends on whatever connection there is
pushEventAnyState ==
    /\ Len(pushes) < MaxPushes
    /\ pushes' = Append(pushes, [n |-> ws.n, sent |-> ws.n > 0])
    /\ UNCHANGED <<ws, retry, oldvars>>

\* lines 212-219: pushEvent sends when this.ws is OPEN and does nothing
\* otherwise; the record keeps the connection and whether send was called
pushEvent ==
    /\ Len(pushes) < MaxPushes
    /\ pushes' = Append(pushes, [n |-> ws.n, sent |-> ws.readyState = "OPEN"])
    /\ UNCHANGED <<ws, retry, oldvars>>

InitRetry == ServerOff /\ ClientOff /\ DiffOff /\ WorkersOff

NextRetry ==
    \/ connectWebSocket
    \/ onopen
    \/ onclose
    \/ RetryTimePasses
    \/ pushEvent

SpecRetry == InitRetry /\ [][NextRetry]_vars

SpecRetryFair ==
    /\ SpecRetry
    /\ WF_vars(RetryTimePasses)
    /\ WF_vars(connectWebSocket)
    /\ SF_vars(onopen)

(***************************************************************************)
(* SpecReconnect: the client's WebSocket and the calls of HandleWebSocket  *)
(* that serve its connections, one call for each connection.  The server   *)
(* reads on a connection what pushEvent sent on it.  As in SpecPair, a     *)
(* connection whose Mount, Render or send failed takes no further step.    *)
(***************************************************************************)
Links == 1..MaxConns

\* the calls of ws.send made on connection c
SentOn(c) == Cardinality({ i \in 1..Len(pushes) : pushes[i].n = c /\ pushes[i].sent })

InitReconnect ==
    /\ components = ComponentNames
    /\ sockets = [x \in {} |-> 0]
    /\ pc = [c \in Links |-> "new"]
    /\ comp = [c \in Links |-> ""]
    /\ socket = [c \in Links |-> NoSocket]
    /\ outbox = [c \in Links |-> <<>>]
    /\ nEvents = [c \in Links |-> 0]
    /\ tick = [c \in Links |-> NoTick]
    /\ mounted = [c \in Links |-> "no"]
    /\ everStored = [c \in Links |-> FALSE]
    /\ ClientOff
    /\ DiffOff
    /\ WorkersOff

\* the page makes connections while they can be told apart
Reconnects == ws.n < MaxConns /\ connectWebSocket

\* the handshake succeeds when HandleWebSocket upgraded the connection
Opens == ws.n \in Links /\ comp[ws.n] # "" /\ onopen

\* liveview.js:3-5 and 93-94: every connection of the page asks for the URL
\* built from the componentName and the socketId the page was constructed with
PageComponent == "counter"

PageSocketId == "s1"

\* the request of connection c reaches the server once the client made it
Request(c) == ws.n >= c /\ ConnectWith(c, PageComponent, PageSocketId)

\* ReadJSON returns a message that was sent on the connection
Delivered(c) == nEvents[c] < SentOn(c)

NextReconnect ==
    \/ Reconnects
    \/ Opens
    \/ onclose
    \/ RetryTimePasses
    \/ pushEvent
    \/ \E c \in Links :
          \/ Request(c)
          \/ Served(c) /\ Mount(c)
          \/ Served(c) /\ StoreSocket(c)
          \/ Served(c) /\ InitialRender(c)
          \/ Served(c) /\ ReadError(c)
          \/ Served(c) /\ Delivered(c) /\ HandleMessage(c)
          \/ Served(c) /\ Cleanup(c)

SpecReconnect == InitReconnect /\ [][NextReconnect]_vars

(***************************************************************************)
(* SpecFragments: ComputeDiff and applyDiff as in SpecDiff, on renders     *)
(* that may consist of several top-level nodes, as the counter's render    *)
(* does (a div followed by a style element).                               *)
(***************************************************************************)

\* most nodes of a render with several top-level nodes
MaxFragmentNodes == 2

\* the markup of every sequence of top-level nodes up to that size
Fragments ==
    { MarkupAll(f) : f \in UNION { ForestsOfSize(n) : n \in 1..MaxFragmentNodes } }

InitFragments ==
    /\ oldHTML \in Fragments
    /\ newHTML \in Fragments
    /\ dphase = "built"
    /\ container = BuildDom(oldHTML)
    /\ focusedInput = 0
    /\ pendingInputs = {}
    /\ received = 0
    /\ TimersOff
    /\ ServerOff
    /\ WorkersOff

SpecFragments == InitFragments /\ [][NextDiff]_vars

(***************************************************************************)
(* SpecClick: a page whose elements carry lv-click, lv-change and          *)
(* lv-submit, the render messages of the server, and a user who clicks     *)
(* and submits.  The connection is open throughout.                        *)
(***************************************************************************)

\* render messages of a run
MaxClickMessages == 2

\* clicks and submits of a run
MaxGestures == 2

ButtonPage(attr) ==
    << OpenTag("div", NoAttr), OpenTag("button", attr), Chr("a"), CloseTag("button"),
       CloseTag("div") >>

FormPage(formAttr, inputAttr) ==
    << OpenTag("form", formAttr), OpenTag("input", inputAttr), CloseTag("form") >>

\* the renders of a component whose template computes the trigger attributes
TriggerPages ==
    { ButtonPage(a) : a \in { NoAttr, "lv-click" :> "increment",
                              "lv-click" :> "decrement" } }
    \cup { FormPage(f, c) : f \in { "lv-submit" :> "save", "lv-submit" :> "send" },
                            c \in { NoAttr, "lv-change" :> "validate" } }

\* the paths of child positions that lead to the elements under nodes
RECURSIVE ElementPaths(_, _)
ElementPaths(nodes, path) ==
    UNION { LET here == Append(path, i)
            IN (IF nodes[i].Type = ElementNode THEN {here} ELSE {})
               \cup ElementPaths(nodes[i].Children, here) :
            i \in 1..Len(nodes) }

RECURSIVE NodeAt(_, _)
NodeAt(nodes, path) ==
    IF Len(path) = 1 THEN nodes[path[1]]
    ELSE NodeAt(nodes[path[1]].Children, Tail(path))

\* the events the listeners of node for the DOM event on push, in the order
\* the listeners were added
RECURSIVE Dispatched(_, _, _)
Dispatched(listeners, on, gesture) ==
    IF listeners = <<>> THEN <<>>
    ELSE (IF Head(listeners).on = on
          THEN << [event |-> Head(listeners).event, gesture |-> gesture] >>
          ELSE <<>>)
         \o Dispatched(Tail(listeners), on, gesture)

\* liveview.js:87-90: connect() attaches the listeners to the first render
InitClick ==
    /\ oldHTML \in TriggerPages
    /\ newHTML = oldHTML
    /\ dphase = "built"
    /\ container = attachEventListeners(AdoptNew(BuildDom(oldHTML), 0, {}))
    /\ focusedInput = 0
    /\ pendingInputs = {}
    /\ received = 0
    /\ TimersOff
    /\ ServerOff
    /\ WorkersOff

OnTriggerPageMessage == OnMessageUpTo(TriggerPages, MaxClickMessages)

\* the user clicks an element or submits a form: the listeners the element
\* has for that DOM event run (lines 140-144 and 191-195), each one calling
\* pushEvent with the name it was created with
DispatchEvent ==
    /\ Len(inputs) < MaxGestures
    /\ \E path \in ElementPaths(container, <<>>), on \in {"click", "submit"} :
          LET node == NodeAt(container, path)
              name == "lv-" \o on
          IN /\ on = "submit" => node.Data = "form"
             /\ inputs' = Append(inputs,
                              [path |-> path, on |-> on,
                               trigger |-> IF name \in DOMAIN node.Attr
                                           THEN node.Attr[name] ELSE ""])
             /\ pushed' = pushed \o Dispatched(node.listeners, on, Len(inputs) + 1)
    /\ UNCHANGED <<container, focusedInput, pendingInputs, received, now,
                   debounceTimers, graceTimers>>
    /\ UNCHANGED <<dvars, svars, wvars>>

NextClick ==
    \/ OnTriggerPageMessage
    \/ DispatchEvent

SpecClick == InitClick /\ [][NextClick]_vars

(***************************************************************************)
(* SpecElement: the WebSocket of a LiveViewSocket that an lv-component     *)
(* element created in its connectedCallback, and the removal of the        *)
(* element from the page.                                                  *)
(***************************************************************************)

\* component_tag.go:53-55: connectedCallback made the LiveViewSocket and called
\* connect(), which made the first WebSocket
InitElement ==
    /\ element = "connected"
    /\ ws = [n |-> 1, readyState |-> "CONNECTING"]
    /\ retry = -1
    /\ pushes = <<>>
    /\ tc = NoTemplate
    /\ chat = NoChat
    /\ todo = NoTodo
    /\ CallsOff
    /\ ServerOff
    /\ ClientOff
    /\ DiffOff

\* component_tag.go:68-73: the element leaves the page; ws.close() starts the
\* close of a connection that is connecting or open and does nothing otherwise
disconnectedCallback ==
    /\ element = "connected"
    /\ element' = "removed"
    /\ ws' = IF ws.readyState \in {"CONNECTING", "OPEN"}
             THEN [ws EXCEPT !.readyState = "CLOSING"]
             ELSE ws
    /\ UNCHANGED <<retry, pushes, tc, chat, todo>>
    /\ UNCHANGED <<dvars, cvars, tvars, svars, wrest>>

NextElement ==
    \/ connectWebSocket
    \/ onopen
    \/ onclose
    \/ RetryTimePasses
    \/ pushEvent
    \/ disconnectedCallback

SpecElement == InitElement /\ [][NextElement]_vars

(***************************************************************************)
(* SpecTemplate: goroutines calling Render on one TemplateComponent, the   *)
(* one that the registered component instance embeds.  The component has   *)
(* no lock, so each read and each write of its fields is a step of its own.*)
(***************************************************************************)

\* Render calls started in one run
MaxRenders == 3

\* the action {{.}} of a template
Dot == "{{.}}"

\* the template files on disk, by path
TemplateFiles ==
    ("templates/a.html" :> << "a:", Dot >>) @@ ("templates/b.html" :> << "b:", Dot >>)

\* the templatePath arguments of the calls of the model, with and without the
\* extension
TemplatePaths == {"a.html", "b"}

\* the data argument of goroutine w's calls
DataOf(w) == IF w = 1 THEN "d1" ELSE "d2"

HasSuffix(s, suffix) ==
    /\ Len(s) >= Len(suffix)
    /\ SubSeq(s, Len(s) - Len(suffix) + 1, Len(s)) = suffix

\* template_component.go:23-28: the path of the file to read
TemplateFilePath(dir, name) ==
    LET templatePath == dir \o "/" \o name
    IN  IF HasSuffix(templatePath, ".html") THEN templatePath
        ELSE templatePath \o ".html"

\* template_component.go:47-55: Parse and Execute; the text pieces are copied
\* and each action is replaced by the data
Execute(content, data) ==
    [i \in 1..Len(content) |-> IF content[i] = Dot THEN data ELSE content[i]]

NoRender == [templatePath |-> "", data |-> ""]

trest == <<dvars, cvars, tvars, svars, sess, mu, tagged, hmu,
           ws, retry, pushes, element, chat, todo>>

InitTemplate ==
    /\ tc = NoTemplate
    /\ wpc = [w \in Workers |-> "off"]
    /\ wop = [w \in Workers |-> NoRender]
    /\ wlocal = [w \in Workers |-> [content |-> <<>>]]
    /\ history = <<>>
    /\ started = 0
    /\ sess = NoSocket
    /\ mu = 0
    /\ tagged = <<>>
    /\ hmu = Unlocked
    /\ ConnOff
    /\ element = "none"
    /\ chat = NoChat
    /\ todo = NoTodo
    /\ ServerOff
    /\ ClientOff
    /\ DiffOff

\* a connection's goroutine calls Render(templatePath, data) on the shared
\* component
RenderCall(w) ==
    /\ wpc[w] = "off"
    /\ started < MaxRenders
    /\ \E templatePath \in TemplatePaths :
         wop' = [wop EXCEPT ![w] = [templatePath |-> templatePath, data |-> DataOf(w)]]
    /\ wpc' = [wpc EXCEPT ![w] = "name"]
    /\ started' = started + 1
    /\ UNCHANGED <<tc, wlocal, history, trest>>

\* line 69
RenderSetName(w) ==
    /\ wpc[w] = "name"
    /\ tc' = [tc EXCEPT !.TemplateName = wop[w].templatePath]
    /\ wpc' = [wpc EXCEPT ![w] = "dir"]
    /\ UNCHANGED <<wop, wlocal, history, started, trest>>

\* lines 70-72
RenderSetDir(w) ==
    /\ wpc[w] = "dir"
    /\ tc' = IF tc.TemplateDir = "" THEN [tc EXCEPT !.TemplateDir = "templates"]
             ELSE tc
    /\ wpc' = [wpc EXCEPT ![w] = "reset"]
    /\ UNCHANGED <<wop, wlocal, history, started, trest>>

\* line 75
RenderReset(w) ==
    /\ wpc[w] = "reset"
    /\ tc' = [tc EXCEPT !.templateContent = <<>>]
    /\ wpc' = [wpc EXCEPT ![w] = "check"]
    /\ UNCHANGED <<wop, wlocal, history, started, trest>>

\* lines 19-21: LoadTemplate returns at once when a content is there
LoadTemplateCheck(w) ==
    /\ wpc[w] = "check"
    /\ wpc' = [wpc EXCEPT ![w] = IF tc.templateContent # <<>> THEN "parse"
                                 ELSE "read"]
    /\ UNCHANGED <<tc, wop, wlocal, history, started, trest>>

\* lines 23-33: the file named by the component's fields is read
LoadTemplateRead(w) ==
    /\ wpc[w] = "read"
    /\ LET templatePath == TemplateFilePath(tc.TemplateDir, tc.TemplateName)
       IN  /\ templatePath \in DOMAIN TemplateFiles
           /\ wlocal' = [wlocal EXCEPT ![w] = [content |-> TemplateFiles[templatePath]]]
    /\ wpc' = [wpc EXCEPT ![w] = "store"]
    /\ UNCHANGED <<tc, wop, history, started, trest>>

\* line 35
LoadTemplateStore(w) ==
    /\ wpc[w] = "store"
    /\ tc' = [tc EXCEPT !.templateContent = wlocal[w].content]
    /\ wpc' = [wpc EXCEPT ![w] = "parse"]
    /\ UNCHANGED <<wop, wlocal, history, started, trest>>

\* lines 46-56: the content the component holds now is parsed and executed on
\* the call's data, and the output returned
RenderTemplateExecute(w) ==
    /\ wpc[w] = "parse"
    /\ history' = Append(history, [w |-> w, templatePath |-> wop[w].templatePath,
                                   data |-> wop[w].data,
                                   out |-> Execute(tc.templateContent, wop[w].data)])
    /\ wpc' = [wpc EXCEPT ![w] = "off"]
    /\ UNCHANGED <<tc, wop, wlocal, started, trest>>

NextTemplate ==
    \E w \in Workers :
        \/ RenderCall(w)
        \/ RenderSetName(w)
        \/ RenderSetDir(w)
        \/ RenderReset(w)
        \/ LoadTemplateCheck(w)
        \/ LoadTemplateRead(w)
        \/ LoadTemplateStore(w)
        \/ RenderTemplateExecute(w)

SpecTemplate == InitTemplate /\ [][NextTemplate]_vars

(***************************************************************************)
(* SpecChat: the chat example's package-level history, shared by every     *)
(* connection, and its three functions called by concurrent goroutines.    *)
(* Each statement under the lock is a step.  A message is its ID and the   *)
(* number n of the addition that made it (1 for the first message ever     *)
(* added); chat.added counts the additions.                                *)
(***************************************************************************)

\* calls of the three functions started in one run
MaxChatCalls == 4

\* examples/chat.go:290: the length the history is cut back to
HistoryLimit == 50

\* keeping the first messages instead of the last
TrimKeepingFirst(messages) ==
    IF Len(messages) > HistoryLimit THEN SubSeq(messages, 1, HistoryLimit)
    ELSE messages

\* examples/chat.go:290-292: keep only the last messages
Trim(messages) ==
    IF Len(messages) > HistoryLimit
    THEN SubSeq(messages, Len(messages) - HistoryLimit + 1, Len(messages))
    ELSE messages

\* examples/chat.go:277-293: addChatMessage as a whole
addChatMessage(c) ==
    [c EXCEPT !.messages = Trim(Append(c.messages,
                                       [ID |-> c.nextMessageID, n |-> c.added + 1])),
              !.nextMessageID = c.nextMessageID + 1,
              !.added = c.added + 1]

\* the chat after k messages were sent, one after the other
RECURSIVE ChatAfter(_)
ChatAfter(k) == IF k = 0 THEN NoChat ELSE addChatMessage(ChatAfter(k - 1))

\* the numbers of messages sent before the run: none, one less than the
\* limit, the limit
PastAdds == {0, HistoryLimit - 1, HistoryLimit}

\* the zero ChatMessage of a slice that make returned
ZeroMessage == [ID |-> 0, n |-> 0]

\* the builtin copy(dst, src)
copy(dst, src) ==
    [i \in 1..Len(dst) |-> IF i <= Len(src) THEN src[i] ELSE dst[i]]

chrest == <<dvars, cvars, tvars, svars, sess, mu, tagged, hmu,
            ws, retry, pushes, element, tc, todo, history>>

InitChat ==
    /\ chat \in { ChatAfter(k) : k \in PastAdds }
    /\ wpc = [w \in Workers |-> "off"]
    /\ wop = [w \in Workers |-> [op |-> ""]]
    /\ wlocal = [w \in Workers |-> [messages |-> <<>>, snapshot |-> <<>>]]
    /\ history = <<>>
    /\ started = 0
    /\ sess = NoSocket
    /\ mu = 0
    /\ tagged = <<>>
    /\ hmu = Unlocked
    /\ ConnOff
    /\ element = "none"
    /\ tc = NoTemplate
    /\ todo = NoTodo
    /\ ServerOff
    /\ ClientOff
    /\ DiffOff

\* a connection's handler or render calls one of the three functions
ChatCall(w) ==
    /\ wpc[w] = "off"
    /\ started < MaxChatCalls
    /\ \E op \in {"add", "get", "clear"} :
         /\ wop' = [wop EXCEPT ![w] = [op |-> op]]
         /\ wpc' = [wpc EXCEPT ![w] = IF op = "get" THEN "rlock" ELSE "lock"]
    /\ started' = started + 1
    /\ UNCHANGED <<chat, wlocal, chrest>>

\* chatMessagesMu.Lock(), lines 278 and 306: waits for the writer and for every
\* reader to leave
chatMessagesMuLock(w) ==
    /\ wpc[w] = "lock"
    /\ chat.mu = Unlocked
    /\ chat' = [chat EXCEPT !.mu.writer = w]
    /\ wpc' = [wpc EXCEPT ![w] = IF wop[w].op = "add" THEN "append" ELSE "empty"]
    /\ UNCHANGED <<wop, wlocal, started, chrest>>

\* lines 281-286
addChatMessageAppend(w) ==
    /\ wpc[w] = "append"
    /\ chat' = [chat EXCEPT !.messages = Append(chat.messages,
                                                [ID |-> chat.nextMessageID,
                                                 n |-> chat.added + 1]),
                            !.added = chat.added + 1]
    /\ wpc' = [wpc EXCEPT ![w] = "nextid"]
    /\ UNCHANGED <<wop, wlocal, started, chrest>>

\* line 287
addChatMessageNextID(w) ==
    /\ wpc[w] = "nextid"
    /\ chat' = [chat EXCEPT !.nextMessageID = chat.nextMessageID + 1]
    /\ wpc' = [wpc EXCEPT ![w] = "trim"]
    /\ UNCHANGED <<wop, wlocal, started, chrest>>

\* lines 290-292
addChatMessageTrim(w) ==
    /\ wpc[w] = "trim"
    /\ chat' = [chat EXCEPT !.messages = Trim(chat.messages)]
    /\ wpc' = [wpc EXCEPT ![w] = "unlock"]
    /\ UNCHANGED <<wop, wlocal, started, chrest>>

\* line 308
clearChatMessagesEmpty(w) ==
    /\ wpc[w] = "empty"
    /\ chat' = [chat EXCEPT !.messages = <<>>]
    /\ wpc' = [wpc EXCEPT ![w] = "resetid"]
    /\ UNCHANGED <<wop, wlocal, started, chrest>>

\* line 309
clearChatMessagesNextID(w) ==
    /\ wpc[w] = "resetid"
    /\ chat' = [chat EXCEPT !.nextMessageID = 1]
    /\ wpc' = [wpc EXCEPT ![w] = "unlock"]
    /\ UNCHANGED <<wop, wlocal, started, chrest>>

\* the deferred chatMessagesMu.Unlock(), lines 279 and 307
chatMessagesMuUnlock(w) ==
    /\ wpc[w] = "unlock"
    /\ chat' = [chat EXCEPT !.mu.writer = 0]
    /\ wpc' = [wpc EXCEPT ![w] = "off"]
    /\ UNCHANGED <<wop, wlocal, started, chrest>>

\* chatMessagesMu.RLock(), line 296: waits for the writer to leave
chatMessagesMuRLock(w) ==
    /\ wpc[w] = "rlock"
    /\ chat.mu.writer = 0
    /\ chat' = [chat EXCEPT !.mu.readers = chat.mu.readers \cup {w}]
    /\ wpc' = [wpc EXCEPT ![w] = "make"]
    /\ UNCHANGED <<wop, wlocal, started, chrest>>

\* line 300
getChatMessagesMake(w) ==
    /\ wpc[w] = "make"
    /\ wlocal' = [wlocal EXCEPT ![w].messages =
                      [i \in 1..Len(chat.messages) |-> ZeroMessage]]
    /\ wpc' = [wpc EXCEPT ![w] = "copy"]
    /\ UNCHANGED <<chat, wop, started, chrest>>

\* line 301
getChatMessagesCopy(w) ==
    /\ wpc[w] = "copy"
    /\ wlocal' = [wlocal EXCEPT ![w].messages = copy(wlocal[w].messages, chat.messages)]
    /\ wpc' = [wpc EXCEPT ![w] = "return"]
    /\ UNCHANGED <<chat, wop, started, chrest>>

\* line 302 and the deferred RUnlock of line 297: the caller now holds the
\* snapshot
getChatMessagesReturn(w) ==
    /\ wpc[w] = "return"
    /\ chat' = [chat EXCEPT !.mu.readers = chat.mu.readers \ {w}]
    /\ wlocal' = [wlocal EXCEPT ![w].snapshot = wlocal[w].messages]
    /\ wpc' = [wpc EXCEPT ![w] = "off"]
    /\ UNCHANGED <<wop, started, chrest>>

NextChat ==
    \E w \in Workers :
        \/ ChatCall(w)
        \/ chatMessagesMuLock(w)
        \/ addChatMessageAppend(w)
        \/ addChatMessageNextID(w)
        \/ addChatMessageTrim(w)
        \/ clearChatMessagesEmpty(w)
        \/ clearChatMessagesNextID(w)
        \/ chatMessagesMuUnlock(w)
        \/ chatMessagesMuRLock(w)
        \/ getChatMessagesMake(w)
        \/ getChatMessagesCopy(w)
        \/ getChatMessagesReturn(w)

SpecChat == InitChat /\ [][NextChat]_vars

(***************************************************************************)
(* SpecTodo: the assigns and flashes of one connection to the todo list    *)
(* component, and its event handlers.  A payload value is a record of its  *)
(* JSON type and its value; a todo is its ID, Text and Completed.          *)
(***************************************************************************)

\* handler calls in one run
MaxTodoEvents == 4

tdrest == <<dvars, cvars, tvars, svars, wrest, ws, retry, pushes, element, tc, chat>>

\* the payload values of the model: absent, strings, numbers
NoValue == [type |-> "none", text |-> "", number |-> 0]
Str(v) == [type |-> "string", text |-> v, number |-> 0]
Num(v) == [type |-> "number", text |-> "", number |-> v]
TextValues == {NoValue, Str(""), Str("a"), Str("b")}
IdValues == {NoValue, Str("1"), Str("2"), Str("x"), Num(1), Num(2)}
FilterValues == {NoValue, Str("all"), Str("active"), Str("completed")}

DigitOf == ("0" :> 0) @@ ("1" :> 1) @@ ("2" :> 2) @@ ("3" :> 3) @@ ("4" :> 4) @@
           ("5" :> 5) @@ ("6" :> 6) @@ ("7" :> 7) @@ ("8" :> 8) @@ ("9" :> 9)

\* strconv.Atoi on an unsigned decimal; 0 with an error otherwise, and the
\* handler drops the error (line 72)
RECURSIVE AtoiFrom(_, _, _)
AtoiFrom(s, i, acc) ==
    IF i > Len(s) THEN acc
    ELSE LET c == SubSeq(s, i, i)
         IN  IF c \in DOMAIN DigitOf THEN AtoiFrom(s, i + 1, 10 * acc + DigitOf[c])
             ELSE 0

Atoi(s) == IF s = "" THEN 0 ELSE AtoiFrom(s, 1, 0)

\* builder.go PutFlash on the connection's flashes
TodoPutFlash(t, type, message) ==
    [t EXCEPT !.flashes = [k \in DOMAIN t.flashes \cup {type} |->
                              IF k = type THEN message ELSE t.flashes[k]]]

\* lines 25-36: Mount
TodoMount(t) ==
    [t EXCEPT !.todos = <<>>, !.newTodo = "", !.nextID = 1, !.filter = "all",
              !.editingID = 0, !.editText = ""]

\* lines 39-63
HandleAdd(t, text) ==
    IF text.type # "string" \/ text.text = "" THEN t
    ELSE TodoPutFlash(
             [t EXCEPT !.todos = Append(t.todos, [ID |-> t.nextID, Text |-> text.text,
                                                  Completed |-> FALSE]),
                       !.newTodo = "",
                       !.nextID = t.nextID + 1],
             "success", "Todo added successfully!")

\* lines 66-86: the id is read as a string
HandleToggle(t, id) ==
    IF id.type # "string" THEN t
    ELSE LET todoID == Atoi(id.text)
             hits == { i \in 1..Len(t.todos) : t.todos[i].ID = todoID }
         IN  IF hits = {} THEN t
             ELSE LET first == CHOOSE i \in hits : \A j \in hits : i <= j
                  IN  [t EXCEPT !.todos[first].Completed = ~t.todos[first].Completed]

\* lines 89-111: the id is read as a number
HandleDelete(t, id) ==
    IF id.type # "number" THEN t
    ELSE TodoPutFlash(
             [t EXCEPT !.todos = SelectSeq(t.todos, LAMBDA todoItem : todoItem.ID # id.number)],
             "info", "Todo deleted")

\* lines 114-124
HandleFilter(t, filter) ==
    IF filter.type # "string" THEN t
    ELSE [t EXCEPT !.filter = filter.text]

\* lines 127-135: active is declared and never filled
HandleClearCompleted(t) ==
    TodoPutFlash([t EXCEPT !.todos = <<>>], "info", "Completed todos cleared")

InitTodo ==
    /\ todo = TodoMount(NoTodo)
    /\ tc = [NoTemplate EXCEPT !.TemplateDir = "examples/templates"]
    /\ element = "none"
    /\ chat = NoChat
    /\ CallsOff
    /\ ConnOff
    /\ ServerOff
    /\ ClientOff
    /\ DiffOff

\* the connection's event runs a handler, which returns the assigns and flashes
\* `after`
Handled(event, after) == [after EXCEPT !.calls = todo.calls + 1, !.event = event]

AddEvent ==
    /\ todo.calls < MaxTodoEvents
    /\ \E text \in TextValues : todo' = Handled("HandleAdd", HandleAdd(todo, text))
    /\ UNCHANGED tdrest

ToggleEvent ==
    /\ todo.calls < MaxTodoEvents
    /\ \E id \in IdValues : todo' = Handled("HandleToggle", HandleToggle(todo, id))
    /\ UNCHANGED tdrest

DeleteEvent ==
    /\ todo.calls < MaxTodoEvents
    /\ \E id \in IdValues : todo' = Handled("HandleDelete", HandleDelete(todo, id))
    /\ UNCHANGED tdrest

FilterEvent ==
    /\ todo.calls < MaxTodoEvents
    /\ \E filter \in FilterValues :
         todo' = Handled("HandleFilter", HandleFilter(todo, filter))
    /\ UNCHANGED tdrest

ClearCompletedEvent ==
    /\ todo.calls < MaxTodoEvents
    /\ todo' = Handled("HandleClearCompleted", HandleClearCompleted(todo))
    /\ UNCHANGED tdrest

NextTodo ==
    \/ AddEvent
    \/ ToggleEvent
    \/ DeleteEvent
    \/ FilterEvent
    \/ ClearCompletedEvent

SpecTodo == InitTodo /\ [][NextTodo]_vars

\* C1: applying ComputeDiff(R1, R2) to the DOM built from R1, with no control
\* focused, yields the tag structure, attributes and text of the DOM built
\* from R2
C1_PatchYieldsNewRender ==
    dphase = "applied" =>
        [i \in 1..Len(container) |-> Structure(container[i])]
            = ParseMarkup(newHTML)

\* C2: a render message applied while a control is focused and pending leaves
\* that control in the DOM with the value it had; a full-markup message gives
\* every control that is not focused the value the markup has at its place
C2_PendingControlSurvivesUpdate ==
    [][received' = received + 1 =>
          /\ \A r \in Controls(container) :
                (r.id = focusedInput /\ r.id \in pendingInputs)
                => \E q \in Controls(container') : q.id = r.id /\ q.value = r.value
          /\ dphase' = "html" =>
                \A r \in Controls(container), q \in Controls(container'),
                   v \in Controls(InnerHTML(newHTML')) :
                    (r.id # focusedInput /\ q.path = r.path /\ v.path = r.path)
                    => q.value = v.value]_vars

(***************************************************************************)
(* Claims about the connection handler, checked under Spec.                *)
(***************************************************************************)
Last(q) == q[Len(q)]

\* a loop iteration of connection c happens in this step
Iterates(c) == nEvents'[c] = nEvents[c] + 1

\* the first category of flashTypes pending in flashes, 0 if none is
RECURSIVE FirstPendingFrom(_, _)
FirstPendingFrom(i, flashes) ==
    IF i > Len(flashTypes) THEN 0
    ELSE IF flashTypes[i] \in DOMAIN flashes THEN i
    ELSE FirstPendingFrom(i + 1, flashes)

FirstPending(flashes) == FirstPendingFrom(1, flashes)

FlashOf(m) == IF "flash" \in DOMAIN m THEN {m.flash} ELSE {}

\* C3, as stated: every flash pending when a message is produced is included
\* in that message
C3_EveryPendingFlashInNextMessage ==
    \A c \in Conns :
        tick[c].sent = "ok" =>
            \A k \in DOMAIN tick[c].flashes :
                [type |-> k, message |-> tick[c].flashes[k]] \in FlashOf(Last(outbox[c]))

\* C3: each message produced carries the first flash pending in the order
\* success, error, info, warning (and no flash if none is pending), also when
\* the render equals the previous one; that flash is cleared and the others
\* stay pending; no flash is carried by two messages of the connection
C3_FirstPendingFlashExactlyOnce ==
    \A c \in Conns :
        /\ tick[c].sent = "ok" =>
              LET pending == tick[c].flashes
                  i == FirstPending(pending)
              IN IF i = 0
                 THEN /\ FlashOf(Last(outbox[c])) = {}
                      /\ socket[c].Flashes = pending
                 ELSE /\ FlashOf(Last(outbox[c]))
                            = {[type |-> flashTypes[i], message |-> pending[flashTypes[i]]]}
                      /\ socket[c].Flashes
                            = [k \in DOMAIN pending \ {flashTypes[i]} |-> pending[k]]
        /\ \A i, j \in 1..Len(outbox[c]) :
              i # j => FlashOf(outbox[c][i]) \cap FlashOf(outbox[c][j]) = {}

\* two flashes put during Mount are delivered by the first and the second
\* message, the second with an unchanged render, and the third carries none
C3_Witness ==
    \E c \in Conns :
        /\ Len(outbox[c]) = 3
        /\ FlashOf(outbox[c][1]) = {[type |-> "success", message |-> 0]}
        /\ FlashOf(outbox[c][2]) = {[type |-> "warning", message |-> 0]}
        /\ outbox[c][2].html = outbox[c][1].html
        /\ FlashOf(outbox[c][3]) = {}

\* C4: an event with no Handle<Name> method on a component without HandleEvent
\* calls no handler, sends nothing, leaves the assigns as they were and leaves
\* the handler in its loop
C4_UnknownEventIsIgnored ==
    [][\A c \in Conns :
          ( /\ Iterates(c)
            /\ "Handle" \o toTitle(tick'[c].event) \notin MethodsOf(comp[c])
            /\ ~IsEventHandler(comp[c]) )
          => /\ tick'[c].calls = <<>>
             /\ outbox'[c] = outbox[c]
             /\ socket'[c].Assigns = socket[c].Assigns
             /\ pc'[c] = "loop"]_vars

\* an unknown event was just ignored and the loop can take a further event
C4_Witness ==
    \E c \in Conns :
        /\ tick[c].event = "nonexistent"
        /\ ~IsEventHandler(comp[c])
        /\ tick[c].calls = <<>>
        /\ pc[c] = "loop"
        /\ nEvents[c] < MaxEvents

\* C5: when the component has the method Handle<Event>, that method is called
\* exactly once for the event and nothing else is, whatever it returns
C5_ConventionHandlerIsTheOnlyOneCalled ==
    \A c \in Conns :
        ( /\ tick[c].event \notin {"", "#initial"}
          /\ "Handle" \o toTitle(tick[c].event) \in MethodsOf(comp[c]) )
        => /\ Len(tick[c].calls) = 1
           /\ tick[c].calls[1].handler = "Handle" \o toTitle(tick[c].event)

\* C6: when the first handler called for an event returns an error, nothing is
\* sent for the event and the handler stays in its loop
C6_HandlerErrorSendsNothing ==
    [][\A c \in Conns :
          ( /\ Iterates(c)
            /\ tick'[c].calls # <<>>
            /\ tick'[c].calls[1].result = "err" )
          => /\ outbox'[c] = outbox[c]
             /\ pc'[c] = "loop"]_vars

\* C7: once the handler of a connection whose socket was stored has returned,
\* the registry maps no id to that connection's socket
C7_TerminationRemovesSocket ==
    \A c \in Conns :
        (pc[c] = "closed" /\ everStored[c])
        => \A id \in DOMAIN sockets : sockets[id] # c

\* C8: after a failed Mount the handler has returned, nothing was sent, the
\* socket never entered the registry, and no render or event handler ran
C8_MountFailureIsFatalAndSilent ==
    \A c \in Conns :
        mounted[c] = "err"
        => /\ pc[c] = "closed"
           /\ outbox[c] = <<>>
           /\ ~everStored[c]
           /\ \A id \in DOMAIN sockets : sockets[id] # c
           /\ tick[c] = NoTick
           /\ nEvents[c] = 0

C8_Witness ==
    \E c \in Conns : mounted[c] = "err" /\ pc[c] = "closed"

\* C9: the message sent for a handled event carries under diff the patch from
\* the previous render to the new one, and no html
C9_LaterMessagesCarryDiff ==
    \A c \in Conns :
        (tick[c].event \notin {"", "#initial"} /\ tick[c].sent = "ok")
        => /\ DOMAIN Last(outbox[c]) \ {"flash"} = {"diff"}
           /\ Last(outbox[c]).diff = ComputeDiff(tick[c].prev, tick[c].new)

\* C10: a handled event whose render equals the previous render, with no flash
\* pending, sends nothing
C10_UnchangedRenderSendsNothing ==
    [][\A c \in Conns :
          ( /\ Iterates(c)
            /\ tick'[c].render = "ok"
            /\ tick'[c].new = tick'[c].prev
            /\ DOMAIN tick'[c].flashes = {} )
          => outbox'[c] = outbox[c]]_vars

\* C11: the first message of a connection is sent after a successful Mount,
\* carries under html the render of the assigns Mount left (and no diff), its
\* flash, if any, was put by Mount, and no event is read before it was sent
C11_FirstMessageIsFullMarkupAfterMount ==
    \A c \in DOMAIN outbox :
        /\ outbox[c] # <<>> =>
              /\ mounted[c] = "ok"
              /\ DOMAIN outbox[c][1] \ {"flash"} = {"html"}
              /\ outbox[c][1].html = Render(comp[c], Assign(NoSocket, [count |-> 0]))
              /\ \A f \in FlashOf(outbox[c][1]) : f.message = 0
        /\ nEvents[c] > 0 => outbox[c] # <<>>

\* the first message carried a flash of Mount and an event was read after it
C11_Witness ==
    \E c \in DOMAIN outbox :
        /\ outbox[c] # <<>>
        /\ FlashOf(outbox[c][1]) # {}
        /\ nEvents[c] > 0

\* C12: ComputeDiff of a render against itself is the empty diff
C12_DiffOfEqualRendersIsEmpty ==
    oldHTML = newHTML => ComputeDiff(oldHTML, newHTML) = NilDiff

\* the patch of a render against itself was computed and applied
C12_Witness ==
    dphase = "applied" /\ oldHTML = newHTML /\ oldHTML # <<>>

\* C13: a step of a connection reads at most one event, and only with the
\* handler back at the top of its loop; it sends at most one message, after all
\* earlier ones, and only for the event it read (or as the initial render); the
\* message renders the assigns the event's handler left
C13_OneEventAtATimeInOrder ==
    [][\A c \in DOMAIN outbox :
          /\ nEvents'[c] \in {nEvents[c], nEvents[c] + 1}
          /\ Iterates(c) => pc[c] = "loop" /\ tick[c].sent # "fail"
          /\ \/ outbox'[c] = outbox[c]
             \/ /\ Iterates(c) \/ pc[c] = "render"
                /\ Len(outbox'[c]) = Len(outbox[c]) + 1
                /\ SubSeq(outbox'[c], 1, Len(outbox[c])) = outbox[c]
                /\ Last(outbox'[c]).html = Render(comp[c], socket'[c])]_vars

\* two events were handled and each has its own message, in order
C13_Witness ==
    \E c \in DOMAIN outbox :
        /\ nEvents[c] = 2
        /\ Len(outbox[c]) = 3
        /\ outbox[c][2].html # outbox[c][1].html
        /\ outbox[c][3].html # outbox[c][2].html

\* C14: an event read on one connection leaves the assigns and the pending
\* flashes of the other connection's socket as they were
C14_EventsLeaveOtherSocketsAlone ==
    [][\A c \in DOMAIN socket :
          Iterates(c) =>
              \A d \in DOMAIN socket \ {c} :
                  /\ socket'[d].Assigns = socket[d].Assigns
                  /\ socket'[d].Flashes = socket[d].Flashes]_vars

\* both connections are served by the same component under the same socket_id,
\* the second has a flash pending, and the first has handled an event that
\* changed its own assigns only
C14_Witness ==
    /\ DOMAIN socket = Pair
    /\ comp[1] = comp[2]
    /\ socket[1].ID = socket[2].ID
    /\ pc[1] = "loop" /\ pc[2] = "loop"
    /\ nEvents[1] = 1
    /\ DOMAIN socket[2].Flashes # {}
    /\ Count(socket[1]) = 1 /\ Count(socket[2]) = 0

\* the input events on control el, as positions in inputs
InputsOn(el) == { i \in 1..Len(inputs) : inputs[i].el = el }

HasNext(i) == \E j \in InputsOn(inputs[i].el) : j > i

\* the input on the same control that follows input i
NextOn(i) ==
    CHOOSE j \in InputsOn(inputs[i].el) :
        j > i /\ \A k \in InputsOn(inputs[i].el) : k > i => j <= k

RECURSIVE Repeat(_, _)
Repeat(str, k) == IF k = 0 THEN "" ELSE str \o Repeat(str, k - 1)

\* the value of the control right after input i
ValueAfter(i) ==
    Repeat(Typed, Cardinality({ j \in InputsOn(inputs[i].el) : j <= i }))

\* one delay after input i
DueOf(i) == inputs[i].at + debounceMs(NodeById(inputs[i].el))

PushedOn(el) == { k \in 1..Len(pushed) : pushed[k].el = el }

\* C15: per control, an input followed within less than the delay by another
\* one sends nothing; an input followed by none for more than the delay has
\* sent exactly one change event, one delay after it, with the value the
\* control had then; whatever was typed in the other control
C15_OneChangeEventPerBurst ==
    \A el \in { r.id : r \in Controls(container) } :
        /\ \A k \in PushedOn(el) :
              \E i \in InputsOn(el) :
                  /\ ~(HasNext(i) /\ inputs[NextOn(i)].at < DueOf(i))
                  /\ pushed[k].at = DueOf(i)
                  /\ pushed[k].value = ValueAfter(i)
        /\ \A k, l \in PushedOn(el) : k # l => pushed[k].value # pushed[l].value
        /\ \A i \in InputsOn(el) :
              ( /\ DueOf(i) < now
                /\ HasNext(i) => inputs[NextOn(i)].at > DueOf(i) )
              => \E k \in PushedOn(el) :
                    pushed[k].at = DueOf(i) /\ pushed[k].value = ValueAfter(i)

\* the first control sent its event although the second control was typed in
\* while the first one's timer ran; the second sent one event for two inputs
C15_Witness ==
    /\ Len(inputs) = 3
    /\ inputs[1].el # inputs[2].el
    /\ inputs[2].el = inputs[3].el
    /\ inputs[2].at < DueOf(1)
    /\ inputs[3].at > inputs[2].at
    /\ Len(pushed) = 2
    /\ pushed[1].el = inputs[1].el /\ pushed[1].value = Typed
    /\ pushed[2].el = inputs[2].el /\ pushed[2].value = Typed \o Typed

\* the change event whose sending started grace timer g
SentBefore(g) ==
    { k \in PushedOn(g.el) : pushed[k].at = g.at - GraceDelay }

\* C16: when the grace timer of a sent change event fires and the control
\* still holds the value that was sent, the control is no longer pending; an
\* input marks its control pending
C16_GraceClearsPending ==
    [][/\ \A g \in graceTimers :
             ( /\ g \notin graceTimers'
               /\ \E k \in SentBefore(g) : pushed[k].value = NodeById(g.el).value )
             => g.el \notin pendingInputs'
       /\ inputs' # inputs => Last(inputs').el \in pendingInputs']_vars

\* the patch that replaces the text of the counter's h2 by "Count: n": the h2
\* is child 1 of div.count-display, which is child 3 of div.counter
CountLeaf(n) ==
    toString(0) :> [children |->
        toString(3) :> [children |->
            toString(1) :> [children |->
                toString(0) :> [s |-> << << Chr("Count: "), Chr(ToString(n)) >> >>]]]]

\* C17: Mount leaves the counter at 0; every increment event adds one, its
\* render is the template with the new count, and the diff from the previous
\* render is the single text leaf at the count's position
C17_CounterCountsAndDiffsOneLeaf ==
    [][\A c \in DOMAIN comp :
          /\ (pc[c] = "mount" /\ comp[c] = "counter" /\ pc'[c] # "mount")
             => Count(socket'[c]) = 0
          /\ (Iterates(c) /\ comp[c] = "counter" /\ tick'[c].event = "increment")
             => /\ Count(socket'[c]) = Count(socket[c]) + 1
                /\ tick'[c].render = "ok"
                   => /\ tick'[c].new = CounterRender(socket'[c])
                      /\ tick'[c].prev # <<>>
                         => ComputeDiff(tick'[c].prev, tick'[c].new)
                               = CountLeaf(Count(socket'[c]))]_vars

\* the counter was incremented twice and shows 2
C17_Witness ==
    \E c \in DOMAIN comp :
        /\ comp[c] = "counter"
        /\ nEvents[c] = 2
        /\ Count(socket[c]) = 2
        /\ tick[c].event = "increment"
        /\ tick[c].sent = "ok"
        /\ Len(outbox[c]) = 3

\* the entries below key in the diff d, the empty diff where d has none
ChildrenOf(d, key) ==
    IF key \in DOMAIN d /\ "children" \in DOMAIN d[key] THEN d[key].children
    ELSE NilDiff

\* walking the old and the new tree together from the position index, with d
\* the diff entries of that level: wherever two elements of the same tag and
\* attributes differ in their number of children, d holds at that position
\* the serialized new element as its one leaf
RECURSIVE CountMismatchReplaced(_, _, _, _)
CountMismatchReplaced(oldNode, newNode, index, d) ==
    IF oldNode.Type # ElementNode \/ newNode.Type # ElementNode THEN TRUE
    ELSE IF oldNode.Data # newNode.Data \/ oldNode.Attr # newNode.Attr THEN TRUE
    ELSE IF Len(oldNode.Children) # Len(newNode.Children)
    THEN /\ toString(index) \in DOMAIN d
         /\ d[toString(index)] = [s |-> << renderNode(newNode) >>]
    ELSE \A i \in 1..Len(oldNode.Children) :
            CountMismatchReplaced(oldNode.Children[i], newNode.Children[i], i - 1,
                                  ChildrenOf(d, toString(index)))

\* some matched pair of elements below the two nodes, not the two nodes
\* themselves, differs in its number of children
RECURSIVE MismatchBelow(_, _, _)
MismatchBelow(oldNode, newNode, top) ==
    /\ oldNode.Type = ElementNode /\ newNode.Type = ElementNode
    /\ oldNode.Data = newNode.Data /\ oldNode.Attr = newNode.Attr
    /\ IF Len(oldNode.Children) # Len(newNode.Children) THEN ~top
       ELSE \E i \in 1..Len(oldNode.Children) :
               MismatchBelow(oldNode.Children[i], newNode.Children[i], FALSE)

\* the root elements ComputeDiff compares
RootOf(html) == unwrapFragment(ParseFragment(html)[1])

\* C18: an element whose number of children changed is replaced as a whole:
\* the diff holds at its position one leaf with the serialized new element,
\* and nothing addressed to a child of it
C18_ChildCountMismatchReplacesParent ==
    oldHTML # newHTML
    => CountMismatchReplaced(RootOf(oldHTML), RootOf(newHTML), 0,
                             ComputeDiff(oldHTML, newHTML))

\* a nested element lost or gained a child and the patch was applied
C18_Witness ==
    /\ dphase = "applied"
    /\ MismatchBelow(RootOf(oldHTML), RootOf(newHTML), TRUE)

\* the attribute leaf from the attributes old to the attributes new: "null"
\* removes an attribute only old has, a value sets a new or changed one
AttrLeaf(old, new) ==
    [a \in { a \in DOMAIN old \cup DOMAIN new :
               a \notin DOMAIN new \/ a \notin DOMAIN old \/ old[a] # new[a] } |->
        IF a \in DOMAIN new THEN new[a] ELSE "null"]

\* walking the old and the new tree together: wherever two elements of the
\* same tag differ in their attributes, d holds at that position the
\* attribute leaf and no replacement markup
RECURSIVE AttrChangePatched(_, _, _, _)
AttrChangePatched(oldNode, newNode, index, d) ==
    IF oldNode.Type # ElementNode \/ newNode.Type # ElementNode THEN TRUE
    ELSE IF oldNode.Data # newNode.Data THEN TRUE
    ELSE IF oldNode.Attr # newNode.Attr
    THEN /\ toString(index) \in DOMAIN d
         /\ "s" \notin DOMAIN d[toString(index)]
         /\ "attr" \in DOMAIN d[toString(index)]
         /\ d[toString(index)].attr = AttrLeaf(oldNode.Attr, newNode.Attr)
    ELSE IF Len(oldNode.Children) # Len(newNode.Children) THEN TRUE
    ELSE \A i \in 1..Len(oldNode.Children) :
            AttrChangePatched(oldNode.Children[i], newNode.Children[i], i - 1,
                              ChildrenOf(d, toString(index)))

\* C19: an element that keeps its tag and changes its attributes gets
\* attribute leaves at its position (remove what only the old node has, set
\* what is new or changed) and its markup is not replaced
C19_AttributeChangeEmitsAttrLeaves ==
    oldHTML # newHTML
    => AttrChangePatched(RootOf(oldHTML), RootOf(newHTML), 0,
                         ComputeDiff(oldHTML, newHTML))

\* walking the diff d over the child lists before and after its application:
\* every text replacement leaf whose target is a text node outside the
\* focused control left its text in the node at the same position
RECURSIVE TextLeavesApplied(_, _, _, _, _)
TextLeavesApplied(before, after, d, focused, inFocused) ==
    \A key \in { k \in DOMAIN d : IsIndexKey(k) } :
        LET i == parseInt(key) + 1
        IN IF i > Len(before) THEN TRUE
           ELSE IF "s" \in DOMAIN d[key]
           THEN before[i].Type = TextNode /\ ~inFocused
                => /\ i <= Len(after)
                   /\ after[i].Type = TextNode
                   /\ after[i].Text = Join(d[key].s)
           ELSE IF "children" \in DOMAIN d[key]
           THEN /\ i <= Len(after)
                /\ TextLeavesApplied(before[i].Children, after[i].Children,
                                     d[key].children, focused,
                                     inFocused \/ (focused # 0 /\ before[i].id = focused))
           ELSE TRUE

\* C20: a diff message writes the text of each of its text replacement
\* leaves into the text node the leaf addresses, unless that text node lies
\* inside the focused control
C20_TextLeafAppliedOutsideFocusedControl ==
    [][(received' = received + 1 /\ dphase' = "diff" /\ Len(container) = 1)
       => TextLeavesApplied(container, container', ComputeDiff(newHTML, newHTML'),
                            focusedInput, FALSE)]_vars

\* the pending flashes after the calls of h one after the other, by the rule
\* that a PutFlash sets its category and a GetFlash that found a message
\* clears its category
RECURSIVE FlashesAfter(_)
FlashesAfter(h) ==
    IF h = <<>> THEN NoFlashes
    ELSE LET before == FlashesAfter(SubSeq(h, 1, Len(h) - 1))
             call == h[Len(h)]
         IN IF call.op = "PutFlash"
            THEN [k \in DOMAIN before \cup {call.key} |->
                     IF k = call.key THEN call.msg ELSE before[k]]
            ELSE IF call.op = "GetFlash"
            THEN [k \in DOMAIN before \ {call.key} |-> before[k]]
            ELSE before

\* C21: the calls take effect one at a time in the order of their return: a
\* PutFlash sets its category and no other, a GetFlash returns the pending
\* message of its category and clears it, so that no message put once is
\* returned twice; with no call inside the session the pending flashes are
\* the ones these rules leave
C21_FlashPutAndTakeAreAtomic ==
    /\ \A i \in 1..Len(history) :
          history[i].op = "GetFlash"
          => LET before == FlashesAfter(SubSeq(history, 1, i - 1))
             IN IF history[i].key \in DOMAIN before
                THEN history[i].ok /\ history[i].val = before[history[i].key]
                ELSE ~history[i].ok
    /\ \A i, j \in 1..Len(history) :
          (i < j /\ history[i].op = "GetFlash" /\ history[j].op = "GetFlash"
                 /\ history[i].ok /\ history[j].ok)
          => history[i].val # history[j].val
    /\ mu = 0 => sess.Flashes = FlashesAfter(history)

\* a message was put, and of the GetFlash calls of the two workers that
\* followed, one returned it and the other returned absent, while the other
\* category kept its message
C21_Witness ==
    /\ Len(history) >= 3
    /\ \E i, j, k \in 1..Len(history) :
          /\ i < j /\ j < k
          /\ history[i].op = "PutFlash"
          /\ history[j].op = "GetFlash" /\ history[j].key = history[i].key
          /\ history[k].op = "GetFlash" /\ history[k].key = history[i].key
          /\ history[j].w # history[k].w
          /\ history[j].ok /\ history[j].val = history[i].msg
          /\ ~history[k].ok

\* the keys assigned by the calls of h
RECURSIVE AssignedIn(_)
AssignedIn(h) ==
    IF h = <<>> THEN {}
    ELSE AssignedIn(Tail(h)) \cup DOMAIN Head(h).assigns

\* C22: after Assign(m), Get returns m[k] as present for every key of m and
\* what it returned before for every other key; a key never assigned is
\* absent; Assign leaves the pending flashes alone
C22_AssignMergesAndKeepsTheRest ==
    [][/\ (Len(history') = Len(history) + 1 /\ Last(history').op = "Assign")
          => LET m == Last(history').assigns
             IN /\ \A k \in DOMAIN m : Get(sess', k) = [val |-> m[k], ok |-> TRUE]
                /\ \A k \in (AssignKeys \cup {"never"}) \ DOMAIN m :
                      Get(sess', k) = Get(sess, k)
                /\ sess'.Flashes = sess.Flashes
       /\ \A k \in (AssignKeys \cup {"never"}) \ AssignedIn(history') :
             ~Get(sess', k).ok]_vars

\* an Assign of one key returned while the other key was assigned before and
\* a flash was pending
C22_Witness ==
    /\ Len(history) >= 3
    /\ Last(history).op = "Assign"
    /\ DOMAIN Last(history).assigns = {"count"}
    /\ Get(sess, "name").ok
    /\ ~Get(sess, "never").ok
    /\ DOMAIN sess.Flashes # {}

\* C25: a loop iteration whose handler succeeded and whose Render failed sends
\* nothing, keeps every pending flash pending, and leaves the connection at
\* the top of its loop
C25_RenderFailureSkipsTheTick ==
    [][\A c \in DOMAIN pc :
          (Iterates(c) /\ tick'[c].render = "err")
          => /\ outbox'[c] = outbox[c]
             /\ DOMAIN socket[c].Flashes \subseteq DOMAIN socket'[c].Flashes
             /\ \A k \in DOMAIN socket'[c].Flashes :
                   \/ socket'[c].Flashes[k] = nEvents'[c]
                   \/ /\ k \in DOMAIN socket[c].Flashes
                      /\ socket'[c].Flashes[k] = socket[c].Flashes[k]
             /\ pc'[c] = "loop"]_vars

\* a handler put a flash, Render failed, and the connection waits for its
\* next message with the flash pending
C25_Witness ==
    \E c \in DOMAIN pc :
        /\ pc[c] = "loop"
        /\ tick[c].event \in EventNames
        /\ tick[c].calls # <<>>
        /\ tick[c].render = "err"
        /\ nEvents[c] \in { socket[c].Flashes[k] : k \in DOMAIN socket[c].Flashes }

\* the markup of the most recent successful Render of a connection
LastRendered(c) == IF tick[c].render = "ok" THEN tick[c].new ELSE tick[c].prev

\* C29: between two ticks the socket's previous render is the markup of the
\* most recent successful Render, and a tick whose handler or render failed
\* leaves the previous render as it was
C29_PreviousIsTheLastRender ==
    \A c \in DOMAIN pc :
        pc[c] = "loop" => socket[c].previousHTML = LastRendered(c)

\* C27: a discovery request leaves the registry and every connection's
\* socket as they were; for a registered component whose Mount and Render
\* succeed it answers with the markup of a freshly mounted socket, a socket
\* id and a component id; for an unregistered name it answers not found
\* and calls no Mount
C27_DiscoveryTouchesNoLiveSocket ==
    [][Len(tagged') = Len(tagged) + 1
       => LET r == Last(tagged')
          IN /\ sockets' = sockets
             /\ socket' = socket
             /\ components' = components
             /\ IF r.name \in components
                THEN /\ r.mounts = 1
                     /\ r.status \in {200, 500}
                     /\ r.status = 200
                        => /\ r.html = Render(r.name, Assign(NoSocket, [count |-> 0]))
                           /\ r.socket_id # ""
                           /\ r.component_id # ""
                ELSE r.status = 404 /\ r.mounts = 0 /\ r.html = <<>>]_vars

\* a discovery request was answered with markup while a connection with a
\* registered socket, changed assigns and a pending flash was being served
C27_Witness ==
    /\ tagged # <<>>
    /\ Last(tagged).status = 200
    /\ \E c \in DOMAIN pc :
          /\ pc[c] = "loop"
          /\ socket[c].ID \in DOMAIN sockets
          /\ Count(socket[c]) > 0
          /\ DOMAIN socket[c].Flashes # {}

\* markup in which the parser finds no node
NoTree(html) == ParseFragment(html)[1].Children[2].Children = <<>>

\* C26: ComputeDiff has no error result, and when one of the two markups
\* holds no tree its patch is one replacement leaf at the root position
\* whose content is the new markup
C26_NoTreeFallsBackToFullReplacement ==
    (oldHTML # newHTML /\ (NoTree(oldHTML) \/ NoTree(newHTML)))
    => LET d == ComputeDiff(oldHTML, newHTML)
       IN /\ DOMAIN d = {toString(0)}
          /\ DOMAIN d[toString(0)] = {"s"}
          /\ ParseMarkup(Join(d[toString(0)].s)) = ParseMarkup(newHTML)

\* C28: when a full-markup message merges a server control into the live
\* control at its position, the live value becomes the server's value unless
\* the control is focused and pending, in which case it stays; a focused
\* control keeps its selection range (as far as the new value reaches); a
\* control without focus is not pending afterwards
C28_MergeKeepsSelectionOfFocusedControl ==
    [][(received' = received + 1 /\ dphase' = "html")
       => \A r \in Controls(container), sv \in Controls(BuildDom(newHTML')) :
             (r.path = sv.path /\ \E r2 \in Controls(container') :
                                     r2.id = r.id /\ r2.path = r.path)
             => LET before == NodeById(r.id)
                    after == CHOOSE n \in NodesById(container', r.id) : TRUE
                    isFocused == focusedInput = r.id
                IN /\ after.value = IF isFocused /\ r.id \in pendingInputs
                                    THEN before.value ELSE sv.value
                   /\ isFocused => after.sel = Clamp(before.sel, after.value)
                   /\ ~isFocused => r.id \notin pendingInputs']_vars

\* C30: a worker that writes the registry holds the write lock and no other
\* worker reads or writes the registry meanwhile; a worker that reads it
\* holds the read lock, and no writer holds the lock
C30_RegistryAccessesAreLocked ==
    \A w \in Workers :
        /\ wpc[w] = "write"
           => /\ hmu.writer = w
              /\ \A v \in Workers \ {w} : wpc[v] \notin {"write", "lookup"}
        /\ wpc[w] = "lookup"
           => /\ w \in hmu.readers
              /\ hmu.writer = 0

\* a worker of HandleWebSocket is at its write of h.sockets while the other
\* worker waits for the lock
C30_Witness ==
    \E w, v \in Workers :
        /\ wpc[w] = "write" /\ wop[w].op = "HandleWebSocket"
        /\ wpc[v] \in {"lock", "rlock"}
        /\ components # {}


\* C23: the client answers every close of its connection by one new connection
\* made when the retry delay has passed, and not before; with a server that
\* answers, a closed connection leads to an open one
C23_EveryCloseLeadsToANewConnection ==
    /\ [][/\ (ws.readyState \in {"CONNECTING", "OPEN"} /\ ws'.readyState = "CLOSED")
               => retry' = RetryDelay
          /\ (ws.readyState = "CLOSED" /\ ws'.readyState # "CLOSED")
               => (retry = 0 /\ ws'.readyState = "CONNECTING")]_vars
    /\ (ws.readyState = "CLOSED") ~> (ws.readyState = "OPEN")

\* the second connection was lost as well, after the first one, and the timer
\* runs again
C23_Witness ==
    /\ ws.n = MaxConns
    /\ ws.readyState = "CLOSED"
    /\ retry = RetryDelay

\* C24: pushEvent sends on an open connection and nowhere else, and what it did
\* not send is sent by nothing later; the server reads on a connection only
\* what was sent on that connection, starts every connection from a new socket,
\* whatever the sockets of earlier connections hold, and sends on it first the
\* full markup of the state Mount left, then at most one message for each event
\* it read there
C24_NothingIsReplayedAfterReconnect ==
    /\ [](\A c \in Links :
            /\ nEvents[c] <= SentOn(c)
            /\ Len(outbox[c]) <= 1 + nEvents[c]
            /\ outbox[c] # <<>> =>
                  /\ mounted[c] = "ok"
                  /\ DOMAIN outbox[c][1] \ {"flash"} = {"html"}
                  /\ outbox[c][1].html
                        = Render(comp[c], Assign(NoSocket, [count |-> 0]))
            /\ nEvents[c] > 0 => outbox[c] # <<>>)
    /\ [][/\ pushes' # pushes =>
                pushes' = Append(pushes, [n |-> ws.n,
                                          sent |-> ws.readyState = "OPEN"])
          /\ \A c \in Links :
                (pc[c] = "new" /\ pc'[c] = "mount")
                => socket'[c] = NewSocket(PageSocketId)]_vars

\* the first connection counted an event, the page pushed another one while
\* it had no open connection, and the second connection is open and has
\* its first message, on a socket with the identifier of the first one
C24_Witness ==
    /\ ws = [n |-> 2, readyState |-> "OPEN"]
    /\ Count(socket[1]) > 0
    /\ socket[2].ID = socket[1].ID
    /\ \E i \in 1..Len(pushes) : ~pushes[i].sent
    /\ Len(outbox[2]) = 1

\* C31: while a connection is in its event loop the registry holds, under the
\* connection's socket id, the socket of that connection
C31_RegistryHoldsEachLoopingSocket ==
    \A c \in DOMAIN pc :
        pc[c] = "loop" =>
            /\ socket[c].ID \in DOMAIN sockets
            /\ sockets[socket[c].ID] = c

\* C32: ComputeDiff returns the empty diff only for two renders that parse to
\* the same sequence of trees: same tags, attributes, children and text at
\* every position
C32_EmptyDiffOnlyForEqualTrees ==
    ComputeDiff(oldHTML, newHTML) = NilDiff
    => ParseMarkup(oldHTML) = ParseMarkup(newHTML)

\* the place of a flash category in the order success, error, info, warning
RankOf(k) ==
    CASE k = "success" -> 1
      [] k = "error" -> 2
      [] k = "info" -> 3
      [] k = "warning" -> 4
      [] OTHER -> 5

\* C33: a message sent carries at most one flash: none if no category was
\* pending when it was rendered, otherwise the pending one that comes first in
\* the order success, error, info, warning, with its message; the other
\* pending flashes are still pending afterwards, for the messages to come
C33_OneFlashPerMessageInOrder ==
    [][\A c \in Conns :
          Len(outbox'[c]) = Len(outbox[c]) + 1
          => LET m == Last(outbox'[c])
                 pending == tick'[c].flashes
             IN /\ Cardinality(FlashOf(m)) <= 1
                /\ DOMAIN pending = {} => FlashOf(m) = {}
                /\ DOMAIN pending # {} =>
                      /\ FlashOf(m) # {}
                      /\ m.flash.type \in DOMAIN pending
                      /\ m.flash.message = pending[m.flash.type]
                      /\ \A k \in DOMAIN pending : RankOf(m.flash.type) <= RankOf(k)
                      /\ \A k \in DOMAIN pending \ {m.flash.type} :
                            /\ k \in DOMAIN socket'[c].Flashes
                            /\ socket'[c].Flashes[k] = pending[k]]_vars

\* a handler put a success and a warning flash while serving the first event:
\* the message for that event carried the success, the message for the next
\* event the warning
C33_Witness ==
    \E c \in Conns :
        /\ Len(outbox[c]) = 3
        /\ FlashOf(outbox[c][1]) = {}
        /\ FlashOf(outbox[c][2]) = {[type |-> "success", message |-> 1]}
        /\ FlashOf(outbox[c][3]) = {[type |-> "warning", message |-> 1]}

\* the events pushed for the gesture number i
PushedFor(i) == SelectSeq(pushed, LAMBDA e : e.gesture = i)

RECURSIVE AllNodes(_)
AllNodes(nodes) ==
    UNION { {nodes[i]} \cup AllNodes(nodes[i].Children) : i \in 1..Len(nodes) }

\* C35: after any number of render messages, a click on an element that
\* carries lv-click pushes exactly one event, named by the attribute's value
\* at the time of the click; and every element that carries a trigger
\* attribute has exactly one listener for it
C35_OneEventPerClickNamedByTheAttribute ==
    /\ \A i \in 1..Len(inputs) :
          (inputs[i].on = "click" /\ inputs[i].trigger # "")
          => PushedFor(i) = << [event |-> inputs[i].trigger, gesture |-> i] >>
    /\ \A n \in AllNodes(container) :
          \A j \in 1..Len(Triggers) :
              ("lv-" \o Triggers[j]) \in DOMAIN n.Attr
              => Cardinality({ k \in 1..Len(n.listeners) :
                                 n.listeners[k].on = DomEventOf(Triggers[j]) }) = 1

\* C36: once the element has been removed from the page, its LiveViewSocket
\* makes no new WebSocket
C36_NoConnectionAfterRemoval ==
    [][element = "removed"
       => ~(ws' # ws /\ ws'.readyState = "CONNECTING")]_vars

\* C34: every Render call through the shared TemplateComponent returned the
\* requested template file executed on the call's own data
C34_RenderReturnsTheRequestedTemplate ==
    \A i \in 1..Len(history) :
        LET call == history[i]
        IN  call.out = Execute(TemplateFiles[TemplateFilePath("templates", call.templatePath)],
                               DataOf(call.w))

\* a run of consecutive additions, oldest first, with strictly increasing ids,
\* no longer than the limit
RecentRun(messages) ==
    /\ Len(messages) <= HistoryLimit
    /\ \A i \in 1..Len(messages) : messages[i].n >= 1
    /\ \A i \in 1..(Len(messages) - 1) :
         /\ messages[i].ID < messages[i + 1].ID
         /\ messages[i + 1].n = messages[i].n + 1

\* C37: whenever no writer is inside its critical section the shared history is
\* a run of at most 50 consecutive additions that ends with the latest one, in
\* order and with strictly increasing ids; every snapshot a connection holds is
\* such a run too, and only the connection's own next read replaces it
C37_HistoryKeepsTheLastFiftyAndSnapshotsStay ==
    /\ [](/\ chat.mu.writer = 0 =>
               /\ RecentRun(chat.messages)
               /\ chat.messages # <<>> =>
                      chat.messages[Len(chat.messages)].n = chat.added
          /\ \A w \in Workers : RecentRun(wlocal[w].snapshot))
    /\ [][\A w \in Workers :
            wlocal'[w].snapshot # wlocal[w].snapshot => wpc[w] = "return"]_vars

\* a connection holds the snapshot of the first 50 messages while the history
\* has moved on to messages 2..51
C37_Witness ==
    /\ chat.mu.writer = 0
    /\ Len(chat.messages) = HistoryLimit
    /\ chat.messages[1].n = 2
    /\ \E w \in Workers :
         /\ Len(wlocal[w].snapshot) = HistoryLimit
         /\ wlocal[w].snapshot[1].n = 1

\* C38: a clear-completed event leaves the todos that were active, in their
\* order, and leaves the next id and the filter as they were
C38_ClearCompletedKeepsTheActiveTodos ==
    [][(todo'.calls = todo.calls + 1 /\ todo'.event = "HandleClearCompleted")
       => /\ todo'.todos = SelectSeq(todo.todos, LAMBDA todoItem : ~todoItem.Completed)
          /\ todo'.nextID = todo.nextID
          /\ todo'.filter = todo.filter]_vars
====
